---- MODULE Spec2Model ----
(***************************************************************************)
(* A model of the sidecar injection webhook (pkg/kube/inject/webhook.go):  *)
(* the JSON Patch primitives, createPatch, the injection pipeline and the  *)
(* configuration swap.                                                     *)
(*                                                                         *)
(* Strings that the code formats, escapes, sorts or parses (JSON Pointer   *)
(* paths, annotation and label keys and values, container arguments) are   *)
(* sequences of atoms.  An atom is a character ("/", "~", a digit) or a    *)
(* word that contains neither "/" nor "~"; no atom is a prefix of another, *)
(* so comparing atom by atom in the byte order of the atoms is the byte    *)
(* order of the strings (sort.Strings).  Names of containers, volumes and  *)
(* secrets are only compared for equality and are plain strings.           *)
(***************************************************************************)
EXTENDS Integers, Sequences, FiniteSets, TLC

VARIABLES
    req,          \* the InjectionParameters of the request (but for its pod)
    pod,          \* the pod of the request, as json.Unmarshal built it
    prevStatus,   \* the previous SidecarInjectionStatus (createPatch's argument)
    sic,          \* the rendered SidecarInjectionSpec
    annotations,  \* the annotations to set (createPatch's argument)
    patchLabels,  \* the labels to add (addLabels' argument)
    patch,        \* the operations emitted, in order
    doc,          \* the JSON document of the pod, to which the patch is applied
    applied,      \* how many operations of patch have been applied to doc
    failed,       \* an operation of the patch could not be applied
    pc,           \* the position of the request
    handler,      \* the local variables of Webhook.inject
    admitted,     \* the documents admitted so far, each with its patch applied
    wh,           \* the Webhook: its mutex and the fields inject and updateConfig share
    updater,      \* the position and the arguments of Webhook.updateConfig
    request,      \* the HTTP request serveInject serves
    response,     \* the HTTP response and the AdmissionResponse of the request
    counters,     \* the injection counters of the monitor
    run,          \* Webhook.Run: its position, its ticker, the stop channel, the health file
    dynamic       \* the dynamic source (galley): its fields, its goroutines, the handler's calls

vars == <<req, pod, prevStatus, sic, annotations, patchLabels, patch, doc, applied, failed, pc,
          handler, admitted, wh, updater, request, response, counters, run, dynamic>>
webhook == <<handler, admitted, wh, updater>>
serving == <<request, response, counters>>
background == <<run, dynamic>>

(***************************************************************************)
(* Bounds of the model.                                                    *)
(***************************************************************************)
MaxLen == 3
MaxAdd == 2
MaxRuns == 2
MaxUpdates == 2
MaxSegments == 4
MaxWrites == 3
MaxStarts == 2
MaxEvents == 1
MaxRequests == 2

(***************************************************************************)
(* Strings as sequences of atoms.                                          *)
(***************************************************************************)
Range(s) == {s[i] : i \in DOMAIN s}

\* The atoms that occur in keys, in byte order ('-' 45, '.' 46, '/' 47,
\* digits, letters, '~' 126).
AtomsInByteOrder ==
    <<"-", ".kubernetes.io", "/", "0", "1", "2", "3", "4", "5", "6", "7", "8", "9",
      "app", "canonical-name", "canonical-revision", "inject", "istio.io", "merge-metrics",
      "name", "network", "path", "port", "prometheus.io", "prometheus.istio.io",
      "proxyUID", "rev", "rewriteAppHTTPProbers", "scrape", "security.istio.io", "service.istio.io",
      "sidecar.istio.io", "status", "tlsMode", "topology.istio.io", "version",
      "x", "y", "z", "~">>

AtomRank(a) == CHOOSE i \in DOMAIN AtomsInByteOrder : AtomsInByteOrder[i] = a

\* s < t in byte order (what sort.Strings compares with).
RECURSIVE StrLess(_, _)
StrLess(s, t) ==
    IF t = <<>> THEN FALSE
    ELSE IF s = <<>> THEN TRUE
    ELSE IF s[1] = t[1] THEN StrLess(Tail(s), Tail(t))
    ELSE AtomRank(s[1]) < AtomRank(t[1])

\* strings.Replace(s, old, new, -1) for a one-atom old.
RECURSIVE ReplaceAll(_, _, _)
ReplaceAll(s, old, new) ==
    IF s = <<>> THEN <<>>
    ELSE (IF s[1] = old THEN new ELSE <<s[1]>>) \o ReplaceAll(Tail(s), old, new)

Digits == <<"0", "1", "2", "3", "4", "5", "6", "7", "8", "9">>

\* strconv.Itoa / FormatUint(n, 10) / %v of an int: base 10, no padding.
RECURSIVE Itoa(_)
Itoa(n) == IF n < 10 THEN <<Digits[n + 1]>> ELSE Itoa(n \div 10) \o <<Digits[(n % 10) + 1]>>

\* sort.Strings, as an insertion sort of the keys in the order the map
\* iteration produced them.
RECURSIVE InsertSorted(_, _)
InsertSorted(sorted, k) ==
    IF sorted = <<>> THEN <<k>>
    ELSE IF StrLess(k, sorted[1]) THEN <<k>> \o sorted
    ELSE <<sorted[1]>> \o InsertSorted(Tail(sorted), k)

\* The keys left in the order of the map iteration.
SortStringsOmitted(keys) == keys

RECURSIVE SortStrings(_)
SortStrings(keys) ==
    IF keys = <<>> THEN <<>>
    ELSE InsertSorted(SortStrings(SubSeq(keys, 1, Len(keys) - 1)), keys[Len(keys)])

\* The orders in which a range over a map with these keys can yield them.
Perms(S) == {p \in [1..Cardinality(S) -> S] : \A i, j \in DOMAIN p : i # j => p[i] # p[j]}

(***************************************************************************)
(* Go values.                                                              *)
(***************************************************************************)
\* A map[string]string: nil, or a function from keys to values.  Reading a
\* missing key (or a nil map) yields "".
NilMap == [isNil |-> TRUE, m |-> <<>>]
MakeMap(f) == [isNil |-> FALSE, m |-> f]
MapGet(mp, k) == IF k \in DOMAIN mp.m THEN mp.m[k] ELSE <<>>
MapHas(mp, k) == k \in DOMAIN mp.m
MapKeys(mp) == DOMAIN mp.m
MapSet(mp, k, v) ==
    MakeMap([x \in (DOMAIN mp.m) \cup {k} |-> IF x = k THEN v ELSE mp.m[x]])
OneEntry(k, v) == [x \in {k} |-> v]

\* uint64 and int64 at the width of the model: a conversion wraps as it
\* does at 64 bits.
IntBits == 12
Modulus == 2 ^ IntBits
ToUint64(i) == i % Modulus
ToInt64(u) == IF u % Modulus >= Modulus \div 2 THEN (u % Modulus) - Modulus ELSE u % Modulus

\* An optional integer (*int64).
NoInt == [set |-> FALSE, v |-> 0]
SomeInt(n) == [set |-> TRUE, v |-> n]

\* corev1.Container, with the fields the webhook reads or writes.
NoSecurityContext == [set |-> FALSE, runAsUser |-> NoInt]
Container(name, image) ==
    [name |-> name, image |-> image, volumeMounts |-> <<>>, env |-> <<>>,
     args |-> <<>>, securityContext |-> NoSecurityContext, readinessProbe |-> "none"]
\* corev1.Volume and corev1.LocalObjectReference.
Volume(name, source) == [name |-> name, source |-> source]
LocalObjectReference(name) == [name |-> name]
VolumeMount(name, mountPath) == [name |-> name, mountPath |-> mountPath]

ValidationContainerName == "istio-validation"
ProxyContainerName == "istio-proxy"
initContainerName == "istio-init"
sidecarContainerName == "istio-proxy"
ServiceAccountMountPath == "/var/run/secrets/kubernetes.io/serviceaccount"

(***************************************************************************)
(* rfc6902PatchOperation.  The value carries its kind, so that values of   *)
(* different kinds are never compared.                                     *)
(***************************************************************************)
NoValue == [kind |-> "none", v |-> <<>>]
Value(kind, v) == [kind |-> kind, v |-> v]
Op(op, path, value) == [op |-> op, path |-> path, value |-> value]

\* fmt.Sprintf("%v/%v", path, i)
IndexPath(path, i) == path \o <<"/">> \o Itoa(i)

\* escape JSON Pointer value per RFC 6901: "~" first, then "/".
escapeJSONPointerValue(in) ==
    LET step == ReplaceAll(in, "~", <<"~", "0">>)
    IN  ReplaceAll(step, "/", <<"~", "1">>)

(***************************************************************************)
(* Array removals.  JSONPatch `remove` is applied sequentially: items are  *)
(* removed in reverse order to avoid renumbering indices.                  *)
(***************************************************************************)
\* for i := len(items) - 1; i >= 0; i-- { if names[items[i].Name] ... }
RECURSIVE removeLoop(_, _, _, _)
\* The loop with its direction reversed: indices ascending.
RECURSIVE removeLoopAscending(_, _, _, _)
removeLoopAscending(items, names, path, i) ==
    IF i < 0 THEN <<>>
    ELSE removeLoopAscending(items, names, path, i - 1)
         \o (IF items[i + 1].name \in names
             THEN <<Op("remove", IndexPath(path, i), NoValue)>>
             ELSE <<>>)

removeLoop(items, names, path, i) ==
    IF i < 0 THEN <<>>
    ELSE (IF items[i + 1].name \in names
          THEN <<Op("remove", IndexPath(path, i), NoValue)>>
          ELSE <<>>) \o removeLoop(items, names, path, i - 1)

removeContainers(containers, removed, path) ==
    removeLoop(containers, Range(removed), path, Len(containers) - 1)

\* removeVolumes leaving every volume in place.
removeVolumesNone(volumes, removed, path) == <<>>

removeVolumes(volumes, removed, path) ==
    removeLoop(volumes, Range(removed), path, Len(volumes) - 1)

removeImagePullSecrets(imagePullSecrets, removed, path) ==
    removeLoop(imagePullSecrets, Range(removed), path, Len(imagePullSecrets) - 1)

(***************************************************************************)
(* Array additions.                                                        *)
(***************************************************************************)
\* The proxy container put in front whatever HoldApplicationUntilProxyStarts says.
shouldBeInjectedInFrontAlways(container, s) ==
    container.name \in {ValidationContainerName, ProxyContainerName}

shouldBeInjectedInFront(container, s) ==
    CASE container.name = ValidationContainerName -> TRUE
      [] container.name = ProxyContainerName -> s.holdApplicationUntilProxyStarts
      [] OTHER -> FALSE

\* The service account secret volume mounts of the target containers, in
\* the order the two nested loops visit them; the last one wins.
RECURSIVE saMounts(_)
saMounts(target) ==
    IF target = <<>> THEN <<>>
    ELSE SelectSeq(target[1].volumeMounts,
                   LAMBDA vm : vm.mountPath = ServiceAccountMountPath)
         \o saMounts(Tail(target))

RECURSIVE addContainerLoop(_, _, _, _, _)
addContainerLoop(s, added, basePath, first, sa) ==
    IF added = <<>> THEN <<>>
    ELSE LET saName == IF sa = <<>> THEN "" ELSE sa[Len(sa)].name
             add == IF added[1].name = sidecarContainerName /\ saName # ""
                    THEN [added[1] EXCEPT !.volumeMounts = @ \o <<sa[Len(sa)]>>]
                    ELSE added[1]
             op == IF first THEN Op("add", basePath, Value("list", <<add>>))
                   ELSE IF shouldBeInjectedInFront(add, s)
                        THEN Op("add", basePath \o <<"/", "0">>, Value("elem", add))
                        ELSE Op("add", basePath \o <<"/", "-">>, Value("elem", add))
         IN  <<op>> \o addContainerLoop(s, Tail(added), basePath, FALSE, sa)

addContainer(s, target, added, basePath) ==
    addContainerLoop(s, added, basePath, Len(target) = 0, saMounts(target))

RECURSIVE addLoop(_, _, _)
addLoop(added, basePath, first) ==
    IF added = <<>> THEN <<>>
    ELSE <<IF first THEN Op("add", basePath, Value("list", <<added[1]>>))
           ELSE Op("add", basePath \o <<"/", "-">>, Value("elem", added[1]))>>
         \o addLoop(Tail(added), basePath, FALSE)

\* addVolume taking every target for an empty one.
addVolumeAlwaysFirst(target, added, basePath) == addLoop(added, basePath, TRUE)

addVolume(target, added, basePath) == addLoop(added, basePath, Len(target) = 0)

addImagePullSecrets(target, added, basePath) == addLoop(added, basePath, Len(target) = 0)

\* Scalar additions.
addSecurityContext(target, basePath) == <<Op("add", basePath, Value("securityContext", target))>>
addPodDNSConfig(target, basePath) == <<Op("add", basePath, Value("dnsConfig", target))>>

(***************************************************************************)
(* Map additions.  iter is the order in which the range over the added map *)
(* yields its keys.                                                        *)
(***************************************************************************)
PathLabels == <<"/", "metadata", "/", "labels">>
PathAnnotations == <<"/", "metadata", "/", "annotations">>

\* The loop without its test of the target's value: every key is patched.
RECURSIVE addLabelsLoopOverwrite(_, _, _)
addLabelsLoopOverwrite(target, added, keys) ==
    IF keys = <<>> THEN <<>>
    ELSE LET key == keys[1]
             value == MapGet(added, key)
             p == IF target.isNil
                  THEN Op("add", PathLabels, Value("map", OneEntry(key, value)))
                  ELSE Op("add", PathLabels \o <<"/">> \o escapeJSONPointerValue(key),
                          Value("str", value))
             target2 == IF target.isNil THEN MakeMap(<<>>) ELSE target
         IN  <<p>> \o addLabelsLoopOverwrite(target2, added, Tail(keys))

RECURSIVE addLabelsLoop(_, _, _)
addLabelsLoop(target, added, keys) ==
    IF keys = <<>> THEN <<>>
    ELSE LET key == keys[1]
             value == MapGet(added, key)
             p == IF target.isNil
                  THEN Op("add", PathLabels, Value("map", OneEntry(key, value)))
                  ELSE Op("add", PathLabels \o <<"/">> \o escapeJSONPointerValue(key),
                          Value("str", value))
             target2 == IF target.isNil THEN MakeMap(<<>>) ELSE target
         IN  (IF MapGet(target2, key) = <<>> THEN <<p>> ELSE <<>>)
             \o addLabelsLoop(target2, added, Tail(keys))

\* adds labels to the target spec, will not overwrite label's value if it already exists
addLabels(target, added, iter) == addLabelsLoop(target, added, SortStrings(iter))

\* The loop with op add for every key, also one the target has a value for.
RECURSIVE updateAnnotationLoopAddOnly(_, _, _)
updateAnnotationLoopAddOnly(target, added, keys) ==
    IF keys = <<>> THEN <<>>
    ELSE LET key == keys[1]
             value == MapGet(added, key)
         IN  IF target.isNil
             THEN <<Op("add", PathAnnotations, Value("map", OneEntry(key, value)))>>
                  \o updateAnnotationLoopAddOnly(MakeMap(<<>>), added, Tail(keys))
             ELSE <<Op("add", PathAnnotations \o <<"/">> \o escapeJSONPointerValue(key),
                       Value("str", value))>>
                  \o updateAnnotationLoopAddOnly(target, added, Tail(keys))

RECURSIVE updateAnnotationLoop(_, _, _)
updateAnnotationLoop(target, added, keys) ==
    IF keys = <<>> THEN <<>>
    ELSE LET key == keys[1]
             value == MapGet(added, key)
         IN  IF target.isNil
             THEN <<Op("add", PathAnnotations, Value("map", OneEntry(key, value)))>>
                  \o updateAnnotationLoop(MakeMap(<<>>), added, Tail(keys))
             ELSE <<Op(IF MapGet(target, key) # <<>> THEN "replace" ELSE "add",
                       PathAnnotations \o <<"/">> \o escapeJSONPointerValue(key),
                       Value("str", value))>>
                  \o updateAnnotationLoop(target, added, Tail(keys))

\* To ensure deterministic patches, the keys are sorted.
updateAnnotation(target, added, iter) == updateAnnotationLoop(target, added, SortStrings(iter))

PathInitContainers == <<"/", "spec", "/", "initContainers">>
PathContainers == <<"/", "spec", "/", "containers">>
PathVolumes == <<"/", "spec", "/", "volumes">>
PathImagePullSecrets == <<"/", "spec", "/", "imagePullSecrets">>

(***************************************************************************)
(* JSON Pointer (RFC 6901), as the consumer of the patch reads a path.     *)
(***************************************************************************)
\* The reference tokens of a pointer: the text after each "/".
RECURSIVE TokenLen(_)
TokenLen(s) == IF s = <<>> \/ s[1] = "/" THEN 0 ELSE 1 + TokenLen(Tail(s))

RECURSIVE SplitPointer(_)
SplitPointer(path) ==
    IF path = <<>> THEN <<>>
    ELSE LET rest == Tail(path)
             n == TokenLen(rest)
         IN  <<SubSeq(rest, 1, n)>> \o SplitPointer(SubSeq(rest, n + 1, Len(rest)))

\* "~1" is "/" and "~0" is "~".
RECURSIVE Unescape(_)
Unescape(tok) ==
    IF tok = <<>> THEN <<>>
    ELSE IF tok[1] = "~" /\ Len(tok) >= 2 /\ tok[2] = "1" THEN <<"/">> \o Unescape(SubSeq(tok, 3, Len(tok)))
    ELSE IF tok[1] = "~" /\ Len(tok) >= 2 /\ tok[2] = "0" THEN <<"~">> \o Unescape(SubSeq(tok, 3, Len(tok)))
    ELSE <<tok[1]>> \o Unescape(Tail(tok))

\* The reference tokens of a well-formed pointer (it starts with "/").
PointerTokens(path) ==
    IF path = <<>> \/ path[1] # "/" THEN <<>>
    ELSE LET toks == SplitPointer(path) IN [i \in DOMAIN toks |-> Unescape(toks[i])]

DigitValue(a) == (CHOOSE i \in DOMAIN Digits : Digits[i] = a) - 1

\* An array index token: digits without a leading zero; -1 otherwise.
RECURSIVE DigitsValue(_)
DigitsValue(tok) ==
    IF tok = <<>> THEN 0
    ELSE DigitsValue(SubSeq(tok, 1, Len(tok) - 1)) * 10 + DigitValue(tok[Len(tok)])

ArrayIndex(tok) ==
    IF tok = <<>> \/ (\E i \in DOMAIN tok : tok[i] \notin Range(Digits))
       \/ (Len(tok) > 1 /\ tok[1] = "0")
    THEN -1
    ELSE DigitsValue(tok)

(***************************************************************************)
(* The pods, statuses and rendered specs the requests are drawn from.      *)
(***************************************************************************)
Kinds == {"initContainers", "containers", "volumes", "imagePullSecrets"}

SAMount == VolumeMount("default-token", ServiceAccountMountPath)

\* Elements a pod arrives with: an application element and one left by a
\* previous injection.
PodElem(kind, i) ==
    CASE kind = "initContainers" ->
           IF i = 1 THEN Container("app-init", "busybox") ELSE Container("istio-init", "proxy_init:old")
      [] kind = "containers" ->
           IF i = 1 THEN [Container("app", "app:v1") EXCEPT !.volumeMounts = <<SAMount>>]
           ELSE Container("istio-proxy", "proxyv2:old")
      [] kind = "volumes" ->
           IF i = 1 THEN Volume("data", "pvc") ELSE Volume("istio-envoy", "emptyDir:old")
      [] kind = "imagePullSecrets" ->
           IF i = 1 THEN LocalObjectReference("regcred") ELSE LocalObjectReference("istio-pull")

\* Names a previous status can list: the two above and one the pod lacks.
StatusName(kind, i) ==
    IF i \in {1, 2} THEN PodElem(kind, i).name
    ELSE CASE kind = "initContainers" -> "enable-core-dump"
           [] kind = "containers" -> "istio-validation"
           [] kind = "volumes" -> "istio-certs"
           [] kind = "imagePullSecrets" -> "old-pull"

\* Elements a rendered template holds.
TplElem(kind, i) ==
    CASE kind = "initContainers" ->
           CASE i = 1 -> Container("istio-init", "proxy_init:new")
             [] i = 2 -> Container("istio-validation", "proxy_init:new")
             [] OTHER -> Container("enable-core-dump", "proxy_init:new")
      [] kind = "containers" ->
           CASE i = 1 -> Container("istio-proxy", "proxyv2:new")
             [] i = 2 -> Container("istio-validation", "proxyv2:new")
             [] OTHER -> Container("extra", "extra:new")
      [] kind = "volumes" ->
           CASE i = 1 -> Volume("istio-envoy", "emptyDir:new")
             [] i = 2 -> Volume("istio-certs", "secret:new")
             [] OTHER -> Volume("istio-data", "emptyDir:new")
      [] kind = "imagePullSecrets" ->
           CASE i = 1 -> LocalObjectReference("istio-pull")
             [] i = 2 -> LocalObjectReference("regcred")
             [] OTHER -> LocalObjectReference("new-pull")

\* Sequences of at most n indices below k + 1.
Shapes(n, k) == UNION {[1..m -> 1..k] : m \in 0..n}

RECURSIVE SetToSeq(_)
SetToSeq(S) == IF S = {} THEN <<>> ELSE LET x == CHOOSE y \in S : TRUE IN <<x>> \o SetToSeq(S \ {x})

PodArray(kind, shape) == [i \in DOMAIN shape |-> PodElem(kind, shape[i])]
TplArray(kind, shape) == [i \in DOMAIN shape |-> TplElem(kind, shape[i])]
StatusList(kind, rm) == SetToSeq({StatusName(kind, i) : i \in rm})

NoPodSecurityContext == [set |-> FALSE, runAsUser |-> NoInt, fsGroup |-> NoInt]

Pod(ic, cs, vs, ips, ann, lbl, sc) ==
    [initContainers |-> ic, containers |-> cs, volumes |-> vs, imagePullSecrets |-> ips,
     annotations |-> ann, labels |-> lbl, securityContext |-> sc]

SidecarInjectionSpec(ic, cs, vs, ips, dns, hold) ==
    [initContainers |-> ic, containers |-> cs, volumes |-> vs, imagePullSecrets |-> ips,
     dnsConfig |-> dns, holdApplicationUntilProxyStarts |-> hold, rewriteAppHTTPProbe |-> FALSE]

SidecarInjectionStatus(ic, cs, vs, ips) ==
    [initContainers |-> ic, containers |-> cs, volumes |-> vs, imagePullSecrets |-> ips]

ShapedPod(shape, ann, lbl, sc) ==
    Pod(PodArray("initContainers", shape), PodArray("containers", shape),
        PodArray("volumes", shape), PodArray("imagePullSecrets", shape), ann, lbl, sc)

ShapedSpec(shape, dns, hold) ==
    SidecarInjectionSpec(TplArray("initContainers", shape), TplArray("containers", shape),
        TplArray("volumes", shape), TplArray("imagePullSecrets", shape), dns, hold)

ShapedStatus(rm) ==
    SidecarInjectionStatus(StatusList("initContainers", rm), StatusList("containers", rm),
        StatusList("volumes", rm), StatusList("imagePullSecrets", rm))

\* Keys and values for the maps: a plain key, one with "/", one with "~"
\* and "/" (which the pointer escapes), and "" as a value.
MapKeyUniverse == {<<"app">>, <<"istio.io", "/", "rev">>, <<"x", "~", "y", "/", "z">>}
MapsOver(keys, values) == UNION {[K -> values] : K \in SUBSET keys}
TargetMaps == {NilMap} \cup {MakeMap(f) : f \in MapsOver(MapKeyUniverse, {<<>>, <<"old">>})}
AddedMaps == {MakeMap(f) : f \in MapsOver(MapKeyUniverse, {<<>>, <<"new">>})}

NoDoc == [none |-> TRUE]

(***************************************************************************)
(* The pod as a JSON document, and RFC 6902 as the API server applies it.  *)
(* An array or map member is absent or present (possibly empty); dnsConfig *)
(* is "" when absent.                                                      *)
(***************************************************************************)
AbsentArray == [present |-> FALSE, items |-> <<>>]
JSONArray(items) == [present |-> TRUE, items |-> items]
AbsentMap == [present |-> FALSE, m |-> <<>>]
JSONMap(f) == [present |-> TRUE, m |-> f]

Document(ic, cs, vs, ips, sc, dns, ann, lbl) ==
    [spec |-> [initContainers |-> ic, containers |-> cs, volumes |-> vs,
               imagePullSecrets |-> ips, securityContext |-> sc, dnsConfig |-> dns],
     metadata |-> [annotations |-> ann, labels |-> lbl]]

\* json.Unmarshal(req.Object.Raw, &pod): an absent array is a nil slice
\* (length 0), an absent map a nil map, a present one a non-nil map.
UnmarshalMap(jm) == IF jm.present THEN MakeMap(jm.m) ELSE NilMap

Unmarshal(d) ==
    Pod(d.spec.initContainers.items, d.spec.containers.items, d.spec.volumes.items,
        d.spec.imagePullSecrets.items, UnmarshalMap(d.metadata.annotations),
        UnmarshalMap(d.metadata.labels), d.spec.securityContext)

InsertAt(s, i, e) == SubSeq(s, 1, i) \o <<e>> \o SubSeq(s, i + 1, Len(s))
RemoveAt(s, i) == SubSeq(s, 1, i) \o SubSeq(s, i + 2, Len(s))
Without(f, k) == [x \in (DOMAIN f) \ {k} |-> f[x]]
With(f, k, v) == [x \in (DOMAIN f) \cup {k} |-> IF x = k THEN v ELSE f[x]]

Applied(d) == [ok |-> TRUE, doc |-> d]
NotApplicable(d) == [ok |-> FALSE, doc |-> d]

\* An operation on the array member kind of /spec: toks are the tokens
\* after /spec/<kind>.
ApplyToArray(d, kind, toks, o) ==
    LET arr == d.spec[kind]
        set(items) == Applied([d EXCEPT !.spec[kind] = JSONArray(items)])
    IN  IF toks = <<>>
        THEN CASE o.op = "add" /\ o.value.kind = "list" -> set(o.value.v)
               [] o.op = "replace" /\ o.value.kind = "list" /\ arr.present -> set(o.value.v)
               [] o.op = "remove" /\ arr.present -> Applied([d EXCEPT !.spec[kind] = AbsentArray])
               [] OTHER -> NotApplicable(d)
        ELSE IF ~arr.present THEN NotApplicable(d)
        ELSE IF Len(toks) = 1
        THEN LET i == ArrayIndex(toks[1])
             IN  CASE o.op = "add" /\ o.value.kind = "elem" /\ toks[1] = <<"-">> ->
                        set(Append(arr.items, o.value.v))
                   [] o.op = "add" /\ o.value.kind = "elem" /\ i >= 0 /\ i <= Len(arr.items) ->
                        set(InsertAt(arr.items, i, o.value.v))
                   [] o.op = "remove" /\ i >= 0 /\ i < Len(arr.items) ->
                        set(RemoveAt(arr.items, i))
                   [] o.op = "replace" /\ o.value.kind = "elem" /\ i >= 0 /\ i < Len(arr.items) ->
                        set([arr.items EXCEPT ![i + 1] = o.value.v])
                   [] OTHER -> NotApplicable(d)
        ELSE LET i == ArrayIndex(toks[1])
             IN  IF i < 0 \/ i >= Len(arr.items) \/ kind \notin {"initContainers", "containers"}
                 THEN NotApplicable(d)
                 ELSE LET c == arr.items[i + 1]
                          put(c2) == set([arr.items EXCEPT ![i + 1] = c2])
                          j == IF Len(toks) = 3 THEN ArrayIndex(toks[3]) ELSE -1
                      IN  CASE Len(toks) = 2 /\ toks[2] = <<"readinessProbe">> /\ o.value.kind = "probe" ->
                                 IF o.op = "add" \/ (o.op = "replace" /\ c.readinessProbe # "none")
                                 THEN put([c EXCEPT !.readinessProbe = o.value.v])
                                 ELSE NotApplicable(d)
                            [] Len(toks) = 3 /\ toks[2] = <<"args">> /\ o.value.kind = "str" ->
                                 IF o.op = "replace" /\ j >= 0 /\ j < Len(c.args)
                                 THEN put([c EXCEPT !.args[j + 1] = o.value.v])
                                 ELSE NotApplicable(d)
                            [] Len(toks) = 2 /\ toks[2] = <<"securityContext">>
                                  /\ o.value.kind = "containerSecurityContext" ->
                                 IF o.op = "add" \/ (o.op = "replace" /\ c.securityContext.set)
                                 THEN put([c EXCEPT !.securityContext = o.value.v])
                                 ELSE NotApplicable(d)
                            [] Len(toks) = 3 /\ toks[2] = <<"securityContext">> /\ toks[3] = <<"runAsUser">>
                                  /\ o.value.kind = "uint" ->
                                 IF /\ c.securityContext.set
                                    /\ o.op = "add" \/ (o.op = "replace" /\ c.securityContext.runAsUser.set)
                                    /\ o.value.v < Modulus \div 2
                                 THEN put([c EXCEPT !.securityContext.runAsUser = SomeInt(o.value.v)])
                                 ELSE NotApplicable(d)
                            [] OTHER -> NotApplicable(d)

\* An operation on the map member name of /metadata.
ApplyToMap(d, name, toks, o) ==
    LET mp == d.metadata[name]
        set(f) == Applied([d EXCEPT !.metadata[name] = JSONMap(f)])
    IN  IF toks = <<>>
        THEN CASE o.op = "add" /\ o.value.kind = "map" -> set(o.value.v)
               [] o.op = "replace" /\ o.value.kind = "map" /\ mp.present -> set(o.value.v)
               [] o.op = "remove" /\ mp.present -> Applied([d EXCEPT !.metadata[name] = AbsentMap])
               [] OTHER -> NotApplicable(d)
        ELSE IF ~mp.present \/ Len(toks) # 1 THEN NotApplicable(d)
        ELSE LET key == toks[1]
             IN  CASE o.op = "add" /\ o.value.kind = "str" -> set(With(mp.m, key, o.value.v))
                   [] o.op = "replace" /\ o.value.kind = "str" /\ key \in DOMAIN mp.m ->
                        set(With(mp.m, key, o.value.v))
                   [] o.op = "remove" /\ key \in DOMAIN mp.m -> set(Without(mp.m, key))
                   [] OTHER -> NotApplicable(d)

\* One operation applied to the document: the tokens of its path are
\* followed from the root; a remove or replace needs its target, an add
\* its parent.
Apply(d, o) ==
    LET toks == PointerTokens(o.path)
        rest == SubSeq(toks, 3, Len(toks))
    IN  IF Len(toks) < 2 THEN NotApplicable(d)
        ELSE IF toks[1] = <<"spec">> /\ Len(toks[2]) = 1 /\ toks[2][1] \in Kinds
        THEN ApplyToArray(d, toks[2][1], rest, o)
        ELSE IF toks[1] = <<"spec">> /\ toks[2] = <<"securityContext">> /\ Len(toks) = 2
        THEN CASE o.op = "add" /\ o.value.kind = "securityContext" ->
                    Applied([d EXCEPT !.spec.securityContext = o.value.v])
               [] o.op = "replace" /\ o.value.kind = "securityContext" /\ d.spec.securityContext.set ->
                    Applied([d EXCEPT !.spec.securityContext = o.value.v])
               [] o.op = "remove" /\ d.spec.securityContext.set ->
                    Applied([d EXCEPT !.spec.securityContext = NoPodSecurityContext])
               [] OTHER -> NotApplicable(d)
        ELSE IF toks[1] = <<"spec">> /\ toks[2] = <<"dnsConfig">> /\ Len(toks) = 2
        THEN CASE o.op = "add" /\ o.value.kind = "dnsConfig" ->
                    Applied([d EXCEPT !.spec.dnsConfig = o.value.v])
               [] o.op = "replace" /\ o.value.kind = "dnsConfig" /\ d.spec.dnsConfig # "" ->
                    Applied([d EXCEPT !.spec.dnsConfig = o.value.v])
               [] o.op = "remove" /\ d.spec.dnsConfig # "" ->
                    Applied([d EXCEPT !.spec.dnsConfig = ""])
               [] OTHER -> NotApplicable(d)
        ELSE IF toks[1] = <<"metadata">> /\ toks[2] \in {<<"annotations">>, <<"labels">>}
        THEN ApplyToMap(d, toks[2][1], rest, o)
        ELSE NotApplicable(d)


DefaultSidecarProxyUID == 1337

(***************************************************************************)
(* createPatch and what it calls.                                          *)
(***************************************************************************)
SidecarStatusKey == <<"sidecar.istio.io", "/", "status">>
PrometheusMergeMetricsKey == <<"prometheus.istio.io", "/", "merge-metrics">>
PrometheusScrapeKey == <<"prometheus.io", "/", "scrape">>
PrometheusPathKey == <<"prometheus.io", "/", "path">>
PrometheusPortKey == <<"prometheus.io", "/", "port">>
RewriteAppHTTPProbersKey == <<"sidecar.istio.io", "/", "rewriteAppHTTPProbers">>

TLSModeLabel == <<"security.istio.io", "/", "tlsMode">>
IstioCanonicalServiceLabelName == <<"service.istio.io", "/", "canonical-name">>
IstioCanonicalServiceRevisionLabelName == <<"service.istio.io", "/", "canonical-revision">>
IstioRevLabel == <<"istio.io", "/", "rev">>
IstioNetworkLabel == <<"topology.istio.io", "/", "network">>
IstioMutualTLSModeLabel == <<"istio">>

EnvVar(name, value) == [name |-> name, value |-> value]

\* strconv.ParseBool
ParseBool(val) ==
    IF val \in {<<"1">>, <<"t">>, <<"T">>, <<"TRUE">>, <<"true">>, <<"True">>}
    THEN [err |-> FALSE, v |-> TRUE]
    ELSE IF val \in {<<"0">>, <<"f">>, <<"F">>, <<"FALSE">>, <<"false">>, <<"False">>}
    THEN [err |-> FALSE, v |-> FALSE]
    ELSE [err |-> TRUE, v |-> FALSE]

\* The mesh configuration: its status port and its EnablePrometheusMerge
\* ("unset" for nil).
MeshConfig(statusPort, merge) == [statusPort |-> statusPort, enablePrometheusMerge |-> merge]

\* enablePrometheusMerge with the mesh setting looked at first.
enablePrometheusMergeMeshFirst(mesh, anno) ==
    LET parsed == ParseBool(MapGet(anno, PrometheusMergeMetricsKey))
    IN  IF mesh.enablePrometheusMerge # "unset" THEN mesh.enablePrometheusMerge = "true"
        ELSE IF MapHas(anno, PrometheusMergeMetricsKey) /\ ~parsed.err THEN parsed.v
        ELSE TRUE

enablePrometheusMerge(mesh, anno) ==
    LET parsed == ParseBool(MapGet(anno, PrometheusMergeMetricsKey))
    IN  IF MapHas(anno, PrometheusMergeMetricsKey) /\ ~parsed.err THEN parsed.v
        ELSE IF mesh.enablePrometheusMerge # "unset" THEN mesh.enablePrometheusMerge = "true"
        ELSE TRUE

extractCanonicalServiceRevision(podLabels) ==
    IF MapHas(podLabels, IstioCanonicalServiceRevisionLabelName)
    THEN MapGet(podLabels, IstioCanonicalServiceRevisionLabelName)
    ELSE IF MapHas(podLabels, <<"app", ".kubernetes.io", "/", "version">>)
    THEN MapGet(podLabels, <<"app", ".kubernetes.io", "/", "version">>)
    ELSE IF MapHas(podLabels, <<"version">>) THEN MapGet(podLabels, <<"version">>)
    ELSE <<"latest">>

extractCanonicalServiceLabel(podLabels, workloadName) ==
    IF MapHas(podLabels, IstioCanonicalServiceLabelName)
    THEN MapGet(podLabels, IstioCanonicalServiceLabelName)
    ELSE IF MapHas(podLabels, <<"app", ".kubernetes.io", "/", "name">>)
    THEN MapGet(podLabels, <<"app", ".kubernetes.io", "/", "name">>)
    ELSE IF MapHas(podLabels, <<"app">>) THEN MapGet(podLabels, <<"app">>)
    ELSE workloadName

\* The value of ISTIO_META_NETWORK in the spec, or a zero value.
RECURSIVE allEnv(_)
allEnv(containers) ==
    IF containers = <<>> THEN <<>> ELSE containers[1].env \o allEnv(Tail(containers))

topologyValues(s) ==
    LET found == SelectSeq(allEnv(s.containers), LAMBDA e : e.name = "ISTIO_META_NETWORK")
    IN  IF found = <<>> THEN <<>> ELSE found[1].value

\* FindSidecar: the index of the first container named as the proxy, 0 for nil.
FindSidecar(containers) ==
    IF \E i \in DOMAIN containers : containers[i].name = ProxyContainerName
    THEN CHOOSE i \in DOMAIN containers :
            /\ containers[i].name = ProxyContainerName
            /\ \A j \in 1..(i - 1) : containers[j].name # ProxyContainerName
    ELSE 0

\* sidecar.Env = append(sidecar.Env, e), through the pointer into sic.Containers.
AppendSidecarEnv(s, e) ==
    LET i == FindSidecar(s.containers)
    IN  IF i = 0 THEN s ELSE [s EXCEPT !.containers[i].env = Append(@, e)]

\* The probe rewriter.  A probe is "none", "tcp" or an HTTPGet probe, of
\* the application ("httpGet:app") or through the status port
\* ("httpGet:status").
IsHTTPGet(probe) == probe \in {"httpGet:app", "httpGet:status"}

ShouldRewriteAppHTTPProbers(anno, s) ==
    LET parsed == ParseBool(MapGet(anno, RewriteAppHTTPProbersKey))
    IN  IF MapHas(anno, RewriteAppHTTPProbersKey) /\ ~parsed.err THEN parsed.v
        ELSE s.rewriteAppHTTPProbe

RECURSIVE DumpAppProbers(_)
DumpAppProbers(containers) ==
    IF containers = <<>> THEN <<>>
    ELSE (IF containers[1].name # ProxyContainerName /\ IsHTTPGet(containers[1].readinessProbe)
          THEN <<containers[1].name, containers[1].readinessProbe>>
          ELSE <<>>) \o DumpAppProbers(Tail(containers))

RECURSIVE probeRewriteLoop(_, _)
probeRewriteLoop(containers, i) ==
    IF i >= Len(containers) THEN <<>>
    ELSE (IF containers[i + 1].name # ProxyContainerName /\ IsHTTPGet(containers[i + 1].readinessProbe)
          THEN <<Op("replace", IndexPath(PathContainers, i) \o <<"/", "readinessProbe">>,
                    Value("probe", "httpGet:status"))>>
          ELSE <<>>) \o probeRewriteLoop(containers, i + 1)

createProbeRewritePatch(anno, podSpec, s, statusPort) ==
    IF statusPort = 0 THEN <<>> ELSE probeRewriteLoop(podSpec.containers, 0)

\* json.Marshal of the PrometheusScrapeConfiguration.
MarshalScrape(scrape, path, port) ==
    <<"{scrape:">> \o scrape \o <<",path:">> \o path \o <<",port:">> \o port \o <<"}">>

\* The rendered spec as createPatch leaves it before the adds: the sidecar
\* has got the prober and the Prometheus environment variables.
PatchedSpec(p, s, mesh) ==
    LET rewrite == ShouldRewriteAppHTTPProbers(p.annotations, s)
        prober == DumpAppProbers(p.containers)
        s1 == IF rewrite /\ prober # <<>>
              THEN AppendSidecarEnv(s, EnvVar("ISTIO_KUBE_APP_PROBERS", prober))
              ELSE s
        scrape == MapGet(p.annotations, PrometheusScrapeKey)
        path == MapGet(p.annotations, PrometheusPathKey)
        port == MapGet(p.annotations, PrometheusPortKey)
    IN  IF /\ enablePrometheusMerge(mesh, p.annotations)
           /\ ~(scrape = <<>> /\ path = <<>> /\ port = <<>>)
        THEN AppendSidecarEnv(s1, EnvVar("ISTIO_PROMETHEUS_ANNOTATIONS", MarshalScrape(scrape, path, port)))
        ELSE s1

\* The annotations to set as createPatch hands them to updateAnnotation.
PatchedAnnotations(p, anno, mesh) ==
    IF enablePrometheusMerge(mesh, p.annotations)
    THEN MapSet(MapSet(MapSet(anno, PrometheusPortKey, Itoa(mesh.statusPort)),
                       PrometheusPathKey, <<"/stats/prometheus">>),
                PrometheusScrapeKey, <<"true">>)
    ELSE anno

\* The labels createPatch hands to addLabels.
PatchLabels(p, revision, s, workloadName) ==
    LET base == MapSet(MapSet(MapSet(MapSet(MakeMap(<<>>),
                    TLSModeLabel, IstioMutualTLSModeLabel),
                    IstioCanonicalServiceLabelName, extractCanonicalServiceLabel(p.labels, workloadName)),
                    IstioRevLabel, revision),
                    IstioCanonicalServiceRevisionLabelName, extractCanonicalServiceRevision(p.labels))
        network == topologyValues(s)
    IN  IF network # <<>> THEN MapSet(base, IstioNetworkLabel, network) ELSE base

\* The removals with those of the volumes ahead of those of the containers.
RemovalsVolumesFirst(p, prev) ==
    removeVolumes(p.volumes, prev.volumes, PathVolumes)
    \o removeContainers(p.initContainers, prev.initContainers, PathInitContainers)
    \o removeContainers(p.containers, prev.containers, PathContainers)
    \o removeImagePullSecrets(p.imagePullSecrets, prev.imagePullSecrets, PathImagePullSecrets)

\* Remove any containers previously injected by kube-inject using container
\* and volume name as unique key for removal.
Removals(p, prev) ==
    removeContainers(p.initContainers, prev.initContainers, PathInitContainers)
    \o removeContainers(p.containers, prev.containers, PathContainers)
    \o removeVolumes(p.volumes, prev.volumes, PathVolumes)
    \o removeImagePullSecrets(p.imagePullSecrets, prev.imagePullSecrets, PathImagePullSecrets)

\* iterA and iterL are the orders in which the ranges over the annotations
\* to set and over the labels to add yield their keys.
createPatch(p, prev, revision, anno, s, workloadName, mesh, iterA, iterL) ==
    LET rewrite == ShouldRewriteAppHTTPProbers(p.annotations, s)
        s2 == PatchedSpec(p, s, mesh)
    IN  (IF rewrite THEN createProbeRewritePatch(p.annotations, p, s, mesh.statusPort) ELSE <<>>)
        \o Removals(p, prev)
        \o addContainer(s2, p.initContainers, s2.initContainers, PathInitContainers)
        \o addContainer(s2, p.containers, s2.containers, PathContainers)
        \o addVolume(p.volumes, s2.volumes, PathVolumes)
        \o addImagePullSecrets(p.imagePullSecrets, s2.imagePullSecrets, PathImagePullSecrets)
        \o (IF s2.dnsConfig # "" THEN addPodDNSConfig(s2.dnsConfig, <<"/", "spec", "/", "dnsConfig">>) ELSE <<>>)
        \o (IF p.securityContext.set
            THEN addSecurityContext(p.securityContext, <<"/", "spec", "/", "securityContext">>)
            ELSE <<>>)
        \o updateAnnotation(p.annotations, PatchedAnnotations(p, anno, mesh), iterA)
        \o addLabels(p.labels, PatchLabels(p, revision, s2, workloadName), iterL)


(***************************************************************************)
(* The patch primitives on their own: each is applied once to inputs drawn *)
(* from the sets above.                                                    *)
(***************************************************************************)
(***************************************************************************)
(* Webhook.inject and injectPod.                                           *)
(***************************************************************************)
proxyUIDAnnotation == <<"sidecar.istio.io", "/", "proxyUID">>
SidecarInjectKey == <<"sidecar.istio.io", "/", "inject">>

\* strconv.ParseUint(s, 10, 64): digits only, and a value of the width.
ParseUint(val) ==
    IF val = <<>> \/ (\E i \in DOMAIN val : val[i] \notin Range(Digits)) \/ Len(val) > 4
    THEN [err |-> TRUE, v |-> 0]
    ELSE IF DigitsValue(val) >= Modulus THEN [err |-> TRUE, v |-> 0]
    ELSE [err |-> FALSE, v |-> DigitsValue(val)]

getProxyUID(p) ==
    IF ~p.annotations.isNil /\ MapHas(p.annotations, proxyUIDAnnotation)
    THEN LET parsed == ParseUint(MapGet(p.annotations, proxyUIDAnnotation))
         IN  [set |-> ~parsed.err, v |-> parsed.v, err |-> parsed.err]
    ELSE [set |-> FALSE, v |-> 0, err |-> FALSE]

\* The loop of inject over pod.Spec.Containers: the greatest runAsUser + 1
\* for the UID, the first runAsUser for the GID.
RECURSIVE containerIDs(_, _, _)
containerIDs(containers, uid, gid) ==
    IF containers = <<>> THEN [uid |-> uid, gid |-> gid]
    ELSE LET c == containers[1]
         IN  IF c.securityContext.set /\ c.securityContext.runAsUser.set
             THEN LET u == ToUint64(ToUint64(c.securityContext.runAsUser.v) + 1)
                  IN  containerIDs(Tail(containers),
                                   IF ~uid.set \/ u > uid.v THEN SomeInt(u) ELSE uid,
                                   IF ~gid.set THEN SomeInt(c.securityContext.runAsUser.v) ELSE gid)
             ELSE containerIDs(Tail(containers), uid, gid)

proxyIDsInPriority(p) ==
    LET annotated == getProxyUID(p)
        podLevel == p.securityContext.set /\ p.securityContext.runAsUser.set
        found == IF annotated.set THEN [uid |-> SomeInt(annotated.v), gid |-> NoInt]
                 ELSE IF podLevel
                 THEN [uid |-> SomeInt(ToUint64(ToUint64(p.securityContext.runAsUser.v) + 1)),
                       gid |-> SomeInt(p.securityContext.runAsUser.v)]
                 ELSE containerIDs(p.containers, NoInt, NoInt)
    IN  [proxyUID |-> IF found.uid.set THEN found.uid.v ELSE DefaultSidecarProxyUID,
         proxyGID |-> IF found.gid.set THEN found.gid ELSE SomeInt(DefaultSidecarProxyUID)]

\* The proxy UID and GID inject resolves for the pod.
proxyIDs(p) ==
    LET annotated == getProxyUID(p)
        podLevel == p.securityContext.set /\ p.securityContext.runAsUser.set
        found == IF annotated.set THEN [uid |-> SomeInt(annotated.v), gid |-> NoInt]
                 ELSE containerIDs(p.containers,
                          IF podLevel THEN SomeInt(ToUint64(ToUint64(p.securityContext.runAsUser.v) + 1))
                          ELSE NoInt,
                          IF podLevel THEN SomeInt(p.securityContext.runAsUser.v) ELSE NoInt)
    IN  [proxyUID |-> IF found.uid.set THEN found.uid.v ELSE DefaultSidecarProxyUID,
         proxyGID |-> IF found.gid.set THEN found.gid ELSE SomeInt(DefaultSidecarProxyUID)]

wasInjectedThroughIstioctlNever(p) == FALSE
wasInjectedThroughIstioctl(p) == MapHas(p.annotations, SidecarStatusKey)

\* The decision: the pod's inject annotation, and the policy without one.
injectRequired(config, p) ==
    LET value == MapGet(p.annotations, SidecarInjectKey)
    IN  IF value = <<"true">> THEN TRUE
        ELSE IF value = <<"false">> THEN FALSE
        ELSE config.Policy = "enabled"

\* The sidecar injection configuration: its policy, template and injected
\* annotations.
Config(policy, template, injected) ==
    [Policy |-> policy, Template |-> template, InjectedAnnotations |-> injected]

sidecarTemplateVersionHash(template) == "sha256(" \o template \o ")"

\* The template rendered: the containers and volumes it holds, the init
\* container with the proxy UID after -u, the sidecar running as it.
TemplateShape(template) ==
    CASE template = "template-0" -> <<1>>
      [] template = "template-1" -> <<1, 2>>
      [] OTHER -> <<2, 1>>

RunAs(uid) == [set |-> TRUE, runAsUser |-> SomeInt(uid)]

Render(template) ==
    LET s == ShapedSpec(TemplateShape(template), "", FALSE)
    IN  [s EXCEPT
            !.initContainers = [i \in DOMAIN @ |->
                IF @[i].name = initContainerName
                THEN [@[i] EXCEPT !.args = <<<<"-p">>, <<"15001">>, <<"-u">>, Itoa(DefaultSidecarProxyUID)>>]
                ELSE @[i]],
            !.containers = [i \in DOMAIN @ |->
                IF @[i].name = sidecarContainerName
                THEN [@[i] EXCEPT !.securityContext = RunAs(DefaultSidecarProxyUID)]
                ELSE @[i]]]

ElementNames(items) == [i \in DOMAIN items |-> items[i].name]

\* json.Marshal of the SidecarInjectionStatus.
MarshalStatus(version, st) ==
    <<"{version:", version, ",initContainers:[">> \o st.initContainers
    \o <<"],containers:[">> \o st.containers
    \o <<"],volumes:[">> \o st.volumes
    \o <<"],imagePullSecrets:[">> \o st.imagePullSecrets \o <<"]}">>

Find(bytes, token) ==
    IF \E i \in DOMAIN bytes : bytes[i] = token
    THEN CHOOSE i \in DOMAIN bytes : bytes[i] = token /\ \A j \in 1..(i - 1) : bytes[j] # token
    ELSE 0

\* json.Unmarshal into a SidecarInjectionStatus.
UnmarshalStatus(bytes) ==
    LET a == Find(bytes, ",initContainers:[")
        b == Find(bytes, "],containers:[")
        c == Find(bytes, "],volumes:[")
        d == Find(bytes, "],imagePullSecrets:[")
        e == Find(bytes, "]}")
    IN  IF bytes = <<"{}">>
        THEN [err |-> FALSE, status |-> SidecarInjectionStatus(<<>>, <<>>, <<>>, <<>>)]
        ELSE IF /\ Len(bytes) >= 7
                /\ bytes[1] = "{version:"
                /\ a = 3 /\ a < b /\ b < c /\ c < d /\ d < e /\ e = Len(bytes)
        THEN [err |-> FALSE,
              status |-> SidecarInjectionStatus(SubSeq(bytes, a + 1, b - 1), SubSeq(bytes, b + 1, c - 1),
                                                SubSeq(bytes, c + 1, d - 1), SubSeq(bytes, d + 1, e - 1))]
        ELSE [err |-> TRUE, status |-> SidecarInjectionStatus(<<>>, <<>>, <<>>, <<>>)]

injectionStatus(p) ==
    LET statusBytes == IF ~p.annotations.isNil /\ MapHas(p.annotations, SidecarStatusKey)
                       THEN MapGet(p.annotations, SidecarStatusKey)
                       ELSE <<>>
        decoded == UnmarshalStatus(statusBytes)
        iStatus == decoded.status
    IN  IF /\ ~decoded.err
           /\ \/ Len(iStatus.initContainers) # 0
              \/ Len(iStatus.containers) # 0
              \/ Len(iStatus.volumes) # 0
              \/ Len(iStatus.imagePullSecrets) # 0
        THEN iStatus
        ELSE SidecarInjectionStatus(<<initContainerName, "enable-core-dump">>, <<sidecarContainerName>>,
                                    <<"istio-certs", "istio-envoy">>, <<>>)

\* The renderer: the spec of the template and the status that names what
\* the spec holds.
BrokenTemplate == "template-broken"

InjectionData(r) ==
    LET s == Render(r.template)
    IN  [err |-> r.template = BrokenTemplate,
         spec |-> s,
         status |-> MarshalStatus(r.version,
                        SidecarInjectionStatus(ElementNames(s.initContainers), ElementNames(s.containers),
                                               ElementNames(s.volumes), ElementNames(s.imagePullSecrets)))]

\* The index of the first element the test holds for, 0 without one.
FirstIndex(items, Test(_)) ==
    IF \E i \in DOMAIN items : Test(items[i])
    THEN CHOOSE i \in DOMAIN items : Test(items[i]) /\ \A j \in 1..(i - 1) : ~Test(items[j])
    ELSE 0

\* The spec's templates have a value after -u; without one the statement
\* indexes past the arguments.
replaceProxyRunAsUserID(s, proxyUID) ==
    LET i == FirstIndex(s.initContainers, LAMBDA c : c.name = initContainerName)
        j == IF i = 0 THEN 0 ELSE FirstIndex(s.initContainers[i].args, LAMBDA arg : arg = <<"-u">>)
        k == FirstIndex(s.containers, LAMBDA c : c.name = sidecarContainerName)
        s1 == IF i # 0 /\ j # 0 /\ j < Len(s.initContainers[i].args)
              THEN [s EXCEPT !.initContainers[i].args[j + 1] = Itoa(proxyUID)]
              ELSE s
    IN  IF k # 0
        THEN [s1 EXCEPT !.containers[k].securityContext = RunAs(ToInt64(proxyUID))]
        ELSE s1

patchProxyRunAsUserID(p, proxyUID) ==
    LET i == FirstIndex(p.initContainers, LAMBDA c : c.name = initContainerName)
        j == IF i = 0 THEN 0 ELSE FirstIndex(p.initContainers[i].args, LAMBDA arg : arg = <<"-u">>)
        k == FirstIndex(p.containers, LAMBDA c : c.name = sidecarContainerName)
        base == IndexPath(PathContainers, k - 1) \o <<"/", "securityContext">>
    IN  (IF i # 0 /\ j # 0
         THEN <<Op("replace", IndexPath(IndexPath(PathInitContainers, i - 1) \o <<"/", "args">>, j),
                   Value("str", Itoa(proxyUID)))>>
         ELSE <<>>)
        \o (IF k = 0 THEN <<>>
            ELSE IF ~p.containers[k].securityContext.set
            THEN <<Op("add", base, Value("containerSecurityContext", RunAs(ToInt64(proxyUID))))>>
            ELSE IF ~p.containers[k].securityContext.runAsUser.set
            THEN <<Op("add", base \o <<"/", "runAsUser">>, Value("uint", proxyUID))>>
            ELSE <<Op("replace", base \o <<"/", "runAsUser">>, Value("uint", proxyUID))>>)

createPartialPatchLabelled(p, anno, proxyUID, iter) ==
    patchProxyRunAsUserID(p, proxyUID) \o updateAnnotation(p.annotations, anno, iter)
    \o addLabels(p.labels, MakeMap(OneEntry(IstioRevLabel, <<"canary">>)), <<IstioRevLabel>>)

createPartialPatch(p, anno, proxyUID, iter) ==
    patchProxyRunAsUserID(p, proxyUID) \o updateAnnotation(p.annotations, anno, iter)

\* The pod as injectPod leaves it for the patch: with the legacy fsGroup
\* when the feature is on.
LegacyFSGroup(r, p, enabled) ==
    IF ~enabled THEN p
    ELSE [p EXCEPT !.securityContext =
            [set |-> TRUE, runAsUser |-> @.runAsUser,
             fsGroup |-> IF r.proxyGID.set THEN r.proxyGID ELSE SomeInt(DefaultSidecarProxyUID)]]

\* The annotations injectPod sets: the status and the injected annotations.
InjectedAnnotations(r) ==
    [isNil |-> FALSE, m |-> r.injectedAnnotations.m @@ OneEntry(SidecarStatusKey, InjectionData(r).status)]

\* The map whose range updateAnnotation sorts in this injection.
AnnotationsToSet(r, p, partialInjection) ==
    IF partialInjection THEN r.injectedAnnotations
    ELSE PatchedAnnotations(p, InjectedAnnotations(r), r.meshConfig)

\* The rendered spec as injectPod hands it to createPatch.
SpecToInject(r) == replaceProxyRunAsUserID(InjectionData(r).spec, r.proxyUID)

injectPod(r, p, partialInjection, iterA, iterL) ==
    IF partialInjection
    THEN createPartialPatch(p, r.injectedAnnotations, r.proxyUID, iterA)
    ELSE createPatch(p, injectionStatus(p), r.revision, InjectedAnnotations(r), SpecToInject(r),
                     r.deployMeta.name, r.meshConfig, iterA, iterL)

(***************************************************************************)
(* parseInjectEnvs: the environment of the proxy from the URL path.        *)
(***************************************************************************)
URLParameterToEnv ==
    OneEntry(<<"cluster">>, <<"ISTIO_META_CLUSTER_ID">>) @@ OneEntry(<<"net">>, <<"ISTIO_META_NETWORK">>)

\* strings.TrimSuffix(path, "/"): one "/" at the end is cut.
TrimSuffix(path) ==
    IF path # <<>> /\ path[Len(path)] = "/" THEN SubSeq(path, 1, Len(path) - 1) ELSE path

\* strings.Split(path, "/"): the parts between the separators, empty parts
\* kept; the split of the empty string is one empty part.
RECURSIVE Split(_)
Split(path) ==
    IF \A i \in DOMAIN path : path[i] # "/" THEN <<path>>
    ELSE LET i == CHOOSE i \in DOMAIN path : path[i] = "/" /\ \A j \in 1..(i - 1) : path[j] # "/"
         IN  <<SubSeq(path, 1, i - 1)>> \o Split(SubSeq(path, i + 1, Len(path)))

ToUpperNone(str) == str
\* strings.ToUpper, atom by atom.
ToUpperAtom(a) ==
    CASE a = "cluster" -> "CLUSTER"
      [] a = "net" -> "NET"
      [] a = "foo" -> "FOO"
      [] a = "Foo" -> "FOO"
      [] a = "c" -> "C"
      [] a = "inject" -> "INJECT"
      [] OTHER -> a
ToUpper(str) == [i \in DOMAIN str |-> ToUpperAtom(str[i])]

\* The loop of parseInjectEnvs from res[i] on (i counts from 0 as in the code).
RECURSIVE parseInjectEnvsLoop(_, _, _)
parseInjectEnvsLoop(res, i, newEnvs) ==
    IF ~(i < Len(res)) THEN newEnvs
    ELSE IF i = Len(res) - 1 THEN newEnvs
    ELSE LET k == res[i + 1]
             env == IF k \in DOMAIN URLParameterToEnv THEN URLParameterToEnv[k] ELSE ToUpper(k)
         IN  parseInjectEnvsLoop(res, i + 2, IF env # <<>> THEN MapSet(newEnvs, env, res[i + 2]) ELSE newEnvs)

parseInjectEnvs(path) == parseInjectEnvsLoop(Split(TrimSuffix(path)), 2, MakeMap(<<>>))

(***************************************************************************)
(* The counters, toAdmissionResponse and handleError.                      *)
(***************************************************************************)
StatusOK == 200
StatusBadRequest == 400
StatusUnsupportedMediaType == 415

\* The monitor's counters.
NoCounters == [total |-> 0, successful |-> 0, skipped |-> 0, failed |-> 0]
Increment(c, counter) == [c EXCEPT ![counter] = @ + 1]

\* The response: the HTTP status (0 while nothing is written), whether an
\* admission review was written to the body, and the AdmissionResponse
\* that inject returned (set), with its Allowed, Patch and Result.Message.
NoResponse ==
    [status |-> 0, review |-> FALSE, set |-> FALSE, allowed |-> FALSE, patch |-> FALSE, message |-> ""]

toAdmissionResponse(r, err) == [r EXCEPT !.set = TRUE, !.allowed = FALSE, !.patch = FALSE, !.message = err]

handleErrorUncounted(c) == c
handleError(c) == Increment(c, "failed")

\* The request: its body (empty, not an admission review, or a review), its
\* Content-Type, its URL path, and whether the raw object of the review
\* is the JSON of a pod.
Request(body, contentType, path, object) ==
    [body |-> body, contentType |-> contentType, path |-> path, object |-> object]
DefaultRequest == Request("review", "application/json", <<"/", "inject">>, "pod")

\* Webhook.Run before it is called.
Runner(interval, file, mon) ==
    [pc |-> "idle", healthCheckInterval |-> interval, healthCheckFile |-> file, mon |-> mon,
     watcher |-> FALSE, healthC |-> FALSE, tick |-> FALSE, stop |-> FALSE,
     content |-> "", writes |-> 0, lastWrite |-> "none", monClosed |-> FALSE, tickerStopped |-> FALSE]
NotRunning == Runner(0, "", FALSE)

\* The dynamic source as New returns it.  Channels, handlers and informers
\* are numbered by the Start that made them, 0 is nil.  closed holds the
\* channels closed, stopped the Starts whose Stop has returned, goroutines
\* the two goroutines of each Start, callers the calls of Start and Stop
\* under way, closes the number of calls of close, calls the invocations
\* of the handlers.
Callers == {1, 2}
NoCall == [pc |-> "idle", op |-> "none", result |-> "none", closed |-> 0]
NotStarted ==
    [stateLock |-> 0, stopCh |-> 0, handler |-> 0, informer |-> 0,
     closed |-> {}, closes |-> 0, starts |-> 0, stopped |-> {}, events |-> 0,
     callers |-> [c \in Callers |-> NoCall], goroutines |-> <<>>, calls |-> {}]

(***************************************************************************)
(* The state of a request and of the webhook.                              *)
(***************************************************************************)
\* InjectionParameters, but for its pod, which the model keeps in pod.
InjectionParameters(workloadName, template, version, mesh, values, revision, injected, uid, gid) ==
    [deployMeta |-> [name |-> workloadName], template |-> template, version |-> version,
     meshConfig |-> mesh, valuesConfig |-> values, revision |-> revision,
     injectedAnnotations |-> injected, proxyEnvs |-> MakeMap(<<>>), proxyUID |-> uid, proxyGID |-> gid]

DefaultStatusPort == 15020

DefaultParameters ==
    InjectionParameters(<<"deploy">>, "", "", MeshConfig(DefaultStatusPort, "false"), "", <<"canary">>,
                        MakeMap(<<>>), DefaultSidecarProxyUID, NoInt)

\* The webhook as constructed, and update k of its configuration.
Templates == <<"template-0", "template-1", "template-2", "template-3", "template-4">>
ValuesFiles == <<"values-0", "values-1", "values-2", "values-3", "values-4">>
Update(k, policy, injected) == [config |-> Config(policy, Templates[k + 1], injected), values |-> ValuesFiles[k + 1]]

Webhook(policy, injected, mesh, legacyFSGroup) ==
    [mu |-> "unlocked",
     Config |-> Update(0, policy, injected).config,
     sidecarTemplateVersion |-> sidecarTemplateVersionHash(Update(0, policy, injected).config.Template),
     meshConfig |-> mesh,
     valuesConfig |-> Update(0, policy, injected).values,
     revision |-> <<"canary">>,
     enableLegacyFSGroupInjection |-> legacyFSGroup]

DefaultWebhook == Webhook("enabled", MakeMap(<<>>), MeshConfig(DefaultStatusPort, "false"), FALSE)

NoLocals == [partialInjection |-> FALSE, config |-> DefaultWebhook.Config, read |-> {}]
Idle == [pc |-> "idle", count |-> 0, config |-> DefaultWebhook.Config, values |-> "",
         version |-> "", written |-> {}]

StartRequestOnly(r, p, ps, s, a, l, d) ==
    /\ request = DefaultRequest
    /\ response = NoResponse
    /\ counters = NoCounters
    /\ handler = NoLocals
    /\ admitted = <<>>
    /\ wh = DefaultWebhook
    /\ updater = Idle
    /\ req = r
    /\ pod = p
    /\ prevStatus = ps
    /\ sic = s
    /\ annotations = a
    /\ patchLabels = l
    /\ patch = <<>>
    /\ doc = d
    /\ applied = 0
    /\ failed = FALSE
    /\ pc = "start"

Start(r, p, ps, s, a, l, d) ==
    /\ StartRequestOnly(r, p, ps, s, a, l, d)
    /\ run = NotRunning
    /\ dynamic = NotStarted

InitPrimArrays ==
    \E shape \in Shapes(MaxLen, 2), rm \in SUBSET (1..3), add \in Shapes(MaxAdd, 3), hold \in BOOLEAN :
        Start(DefaultParameters, ShapedPod(shape, NilMap, NilMap, NoPodSecurityContext), ShapedStatus(rm),
              ShapedSpec(add, "", hold), MakeMap(<<>>), MakeMap(<<>>), NoDoc)

InitPrimMaps ==
    \E tm \in TargetMaps, am \in AddedMaps :
        Start(DefaultParameters, ShapedPod(<<1>>, tm, tm, NoPodSecurityContext), ShapedStatus({}),
              ShapedSpec(<<1>>, "", FALSE), am, am, NoDoc)

InitPrim == InitPrimArrays \/ InitPrimMaps

KindPath(kind) ==
    CASE kind = "initContainers" -> PathInitContainers
      [] kind = "containers" -> PathContainers
      [] kind = "volumes" -> PathVolumes
      [] kind = "imagePullSecrets" -> PathImagePullSecrets

\* The position after a call of fn on the pod's array or map named kind.
At(fn, kind) == fn \o "(" \o kind \o ")"

Emit(ops, at) ==
    /\ pc = "start"
    /\ patch' = ops
    /\ pc' = at
    /\ UNCHANGED <<req, pod, prevStatus, sic, annotations, patchLabels, doc, applied, failed, webhook,
                   serving, background>>

\* One call of one primitive on the inputs.
NextPrim ==
    \/ \E kind \in {"initContainers", "containers"} :
          Emit(removeContainers(pod[kind], prevStatus[kind], KindPath(kind)), At("removeContainers", kind))
    \/ Emit(removeVolumes(pod.volumes, prevStatus.volumes, PathVolumes), At("removeVolumes", "volumes"))
    \/ Emit(removeImagePullSecrets(pod.imagePullSecrets, prevStatus.imagePullSecrets, PathImagePullSecrets),
            At("removeImagePullSecrets", "imagePullSecrets"))
    \/ \E kind \in {"initContainers", "containers"} :
          Emit(addContainer(sic, pod[kind], sic[kind], KindPath(kind)), At("addContainer", kind))
    \/ Emit(addVolume(pod.volumes, sic.volumes, PathVolumes), At("addVolume", "volumes"))
    \/ Emit(addImagePullSecrets(pod.imagePullSecrets, sic.imagePullSecrets, PathImagePullSecrets),
            At("addImagePullSecrets", "imagePullSecrets"))
    \/ \E iter \in Perms(MapKeys(annotations)) :
          Emit(updateAnnotation(pod.annotations, annotations, iter), At("updateAnnotation", "annotations"))
    \/ \E iter \in Perms(MapKeys(patchLabels)) :
          Emit(addLabels(pod.labels, patchLabels, iter), At("addLabels", "labels"))

SpecPrim == InitPrim /\ [][NextPrim]_vars

(***************************************************************************)
(* createPatch on a pod as it arrives, and the patch applied operation by  *)
(* operation to the document the pod was decoded from.                     *)
(***************************************************************************)
Reverse(q) == [i \in DOMAIN q |-> q[Len(q) + 1 - i]]
Rotate(q) == IF q = <<>> THEN q ELSE Tail(q) \o <<q[1]>>

\* Orders in which a range over a map with these keys can yield them.
IterationOrders(keys) == LET q == SetToSeq(keys) IN {q, Reverse(q), Rotate(q)}

DocArray(kind, shape, present) ==
    IF shape = <<>> /\ ~present THEN AbsentArray ELSE JSONArray(PodArray(kind, shape))

ShapedDocument(shape, present, sc, ann, lbl) ==
    Document(DocArray("initContainers", shape, present), DocArray("containers", shape, present),
             DocArray("volumes", shape, present), DocArray("imagePullSecrets", shape, present),
             sc, "", ann, lbl)

StatusOnly == MakeMap(OneEntry(SidecarStatusKey, <<"status">>))

StartRequest(r, d, ps, s, a) == Start(r, Unmarshal(d), ps, s, a, MakeMap(<<>>), d)

\* Arrays of every shape, absent or present, against every previous status
\* and rendered spec.
InitArrays ==
    \E shape \in Shapes(MaxLen, 2), rm \in SUBSET (1..3), add \in Shapes(MaxAdd, 2),
       hold \in BOOLEAN, present \in BOOLEAN :
        StartRequest(DefaultParameters,
                     ShapedDocument(shape, present, NoPodSecurityContext, AbsentMap, AbsentMap),
                     ShapedStatus(rm), ShapedSpec(add, "", hold), StatusOnly)

PodAnnotationChoices ==
    {AbsentMap}
    \cup {JSONMap(f) : f \in MapsOver({PrometheusScrapeKey, PrometheusPortKey}, {<<"true">>})}
    \cup {JSONMap(OneEntry(PrometheusMergeMetricsKey, v)) : v \in {<<"false">>, <<"bogus">>}}
    \cup {JSONMap(f) : f \in MapsOver({SidecarStatusKey}, {<<>>, <<"old">>})}

PodLabelChoices ==
    {AbsentMap}
    \cup {JSONMap(f) : f \in MapsOver({<<"app">>, <<"version">>}, {<<"v">>})}
    \cup {JSONMap(f) : f \in MapsOver({IstioCanonicalServiceLabelName, IstioRevLabel}, {<<>>, <<"old">>})}

InjectedAnnotationChoices == {MakeMap(<<>>), MakeMap(OneEntry(<<"x", "~", "y", "/", "z">>, <<"new">>))}

WithNetwork(s, network) ==
    IF network = <<>> THEN s
    ELSE [s EXCEPT !.containers[1].env = <<EnvVar("ISTIO_META_NETWORK", network)>>]

\* Annotations and labels, absent, empty or holding the keys createPatch
\* reads, under every mesh setting.
InitMaps ==
    \E pa \in PodAnnotationChoices, pl \in PodLabelChoices, ia \in InjectedAnnotationChoices,
       merge \in {"unset", "true", "false"}, port \in {0, DefaultStatusPort},
       network \in {<<>>, <<"network">>} :
        StartRequest([DefaultParameters EXCEPT !.meshConfig = MeshConfig(port, merge),
                                               !.injectedAnnotations = ia],
                     ShapedDocument(<<1>>, TRUE, NoPodSecurityContext, pa, pl),
                     ShapedStatus({}), WithNetwork(ShapedSpec(<<1>>, "", FALSE), network),
                     [isNil |-> FALSE, m |-> StatusOnly.m @@ ia.m])

FSGroupOnly == [set |-> TRUE, runAsUser |-> NoInt, fsGroup |-> SomeInt(DefaultSidecarProxyUID)]

WithProbe(d, probe) ==
    [d EXCEPT !.spec.containers.items =
        [i \in DOMAIN @ |-> IF @[i].name = "app" THEN [@[i] EXCEPT !.readinessProbe = probe] ELSE @[i]]]

\* Probes, the rewrite switch, dnsConfig and the pod's securityContext.
InitProbes ==
    \E shape \in {<<1>>, <<1, 2>>, <<2, 1>>}, sc \in {NoPodSecurityContext, FSGroupOnly},
       dns \in {"", "dnsConfig"}, rw \in {<<>>, <<"true">>, <<"false">>}, tpl \in BOOLEAN,
       probe \in {"none", "tcp", "httpGet:app"}, port \in {0, DefaultStatusPort} :
        StartRequest([DefaultParameters EXCEPT !.meshConfig = MeshConfig(port, "unset")],
                     WithProbe(ShapedDocument(shape, TRUE, sc,
                                   IF rw = <<>> THEN AbsentMap
                                   ELSE JSONMap(OneEntry(RewriteAppHTTPProbersKey, rw)),
                                   AbsentMap), probe),
                     ShapedStatus({2}),
                     [ShapedSpec(<<1>>, dns, FALSE) EXCEPT !.rewriteAppHTTPProbe = tpl],
                     StatusOnly)

\* The merge-metrics annotation absent, true, false or unparseable, with the
\* pod's scrape annotations absent, empty or set, under every mesh setting,
\* the rendered spec with and without the sidecar, and the annotations to
\* set with and without a port already in them.
InitPrometheus ==
    \E scrape \in MapsOver({PrometheusScrapeKey, PrometheusPathKey}, {<<>>, <<"true">>}),
       mergeMetrics \in {<<>>, <<"true">>, <<"false">>, <<"bogus">>},
       merge \in {"unset", "true", "false"}, sidecar \in BOOLEAN, port \in {<<>>, <<"old">>} :
        LET pa == scrape @@ (IF mergeMetrics = <<>> THEN <<>>
                             ELSE OneEntry(PrometheusMergeMetricsKey, mergeMetrics))
        IN  StartRequest([DefaultParameters EXCEPT !.meshConfig = MeshConfig(DefaultStatusPort, merge)],
                         ShapedDocument(<<1>>, TRUE, NoPodSecurityContext,
                                        IF DOMAIN pa = {} THEN AbsentMap ELSE JSONMap(pa), AbsentMap),
                         ShapedStatus({}), ShapedSpec(IF sidecar THEN <<1>> ELSE <<2>>, "", FALSE),
                         IF port = <<>> THEN StatusOnly ELSE MapSet(StatusOnly, PrometheusPortKey, port))

Init == InitArrays \/ InitMaps \/ InitProbes \/ InitPrometheus

CreatePatch ==
    /\ pc = "start"
    /\ \E iterA \in IterationOrders(MapKeys(PatchedAnnotations(pod, annotations, req.meshConfig))),
          iterL \in IterationOrders(MapKeys(PatchLabels(pod, req.revision,
                                                        PatchedSpec(pod, sic, req.meshConfig),
                                                        req.deployMeta.name))) :
          patch' = createPatch(pod, prevStatus, req.revision, annotations, sic,
                               req.deployMeta.name, req.meshConfig, iterA, iterL)
    /\ sic' = PatchedSpec(pod, sic, req.meshConfig)
    /\ annotations' = PatchedAnnotations(pod, annotations, req.meshConfig)
    /\ patchLabels' = PatchLabels(pod, req.revision, sic', req.deployMeta.name)
    /\ pc' = "createPatch"
    /\ UNCHANGED <<req, pod, prevStatus, doc, applied, failed, webhook,
                   serving, background>>

\* The API server applies the next operation of the patch; a patch with an
\* operation that cannot be applied is rejected.
ApplyOp ==
    /\ pc \in {"createPatch", "inject"}
    /\ ~failed
    /\ applied < Len(patch)
    /\ LET r == Apply(doc, patch[applied + 1])
       IN  /\ doc' = r.doc
           /\ failed' = ~r.ok
           /\ applied' = IF r.ok THEN applied + 1 ELSE applied
    /\ UNCHANGED <<req, pod, prevStatus, sic, annotations, patchLabels, patch, pc, webhook,
                   serving, background>>

Next == CreatePatch \/ ApplyOp

Spec == Init /\ [][Next]_vars


(***************************************************************************)
(* Webhook.inject step by step.  It takes no lock: each read of a field of *)
(* the webhook is a step of its own, and the reads that fill the           *)
(* InjectionParameters are not ordered by any synchronisation.             *)
(***************************************************************************)
ParameterReads == {"template", "version", "valuesConfig", "injectedAnnotations"}

\* Lines 735-800: the pod decoded, the decision on wh.Config, the proxy UID
\* and GID.  meshConfig and revision are not written after construction.
InjectDecide ==
    /\ pc = "start"
    /\ IF request.object # "pod"
       THEN \* lines 738-742
            /\ counters' = handleError(counters)
            /\ response' = toAdmissionResponse(response, "unmarshal")
            /\ pc' = "error"
            /\ UNCHANGED <<pod, handler, req>>
       ELSE LET p == Unmarshal(doc)
                config == wh.Config
                required == injectRequired(config, p)
                partialInjection == ~required /\ wasInjectedThroughIstioctl(p)
                ids == proxyIDs(p)
            IN  /\ pod' = p
                /\ handler' = [partialInjection |-> partialInjection, config |-> config, read |-> {}]
                /\ IF ~required /\ ~partialInjection
                   THEN \* lines 759-763
                        /\ counters' = Increment(counters, "skipped")
                        /\ response' = [response EXCEPT !.set = TRUE, !.allowed = TRUE]
                        /\ pc' = "skipped"
                        /\ req' = req
                   ELSE /\ pc' = "params"
                        /\ req' = [req EXCEPT !.proxyUID = ids.proxyUID, !.proxyGID = ids.proxyGID,
                                              !.meshConfig = wh.meshConfig, !.revision = wh.revision,
                                              !.proxyEnvs = parseInjectEnvs(request.path)]
                        /\ UNCHANGED <<counters, response>>
    /\ UNCHANGED <<prevStatus, sic, annotations, patchLabels, patch, doc, applied, failed,
                   admitted, wh, updater, request, background>>

ReadParameter(field, value) ==
    /\ pc = "params"
    /\ field \notin handler.read
    /\ req' = [req EXCEPT ![field] = value]
    /\ handler' = [handler EXCEPT !.read = @ \cup {field}]
    /\ UNCHANGED <<pod, prevStatus, sic, annotations, patchLabels, patch, doc, applied, failed, pc,
                   admitted, wh, updater,
                   serving, background>>

\* Lines 807-812: the fields of the webhook read into the parameters.
ReadParameters ==
    \/ ReadParameter("template", wh.Config.Template)
    \/ ReadParameter("version", wh.sidecarTemplateVersion)
    \/ ReadParameter("valuesConfig", wh.valuesConfig)
    \/ ReadParameter("injectedAnnotations", wh.Config.InjectedAnnotations)

\* Lines 818-833 and injectPod: the patch of the response.
InjectPod ==
    /\ pc = "params"
    /\ handler.read = ParameterReads
    /\ LET p == LegacyFSGroup(req, pod, wh.enableLegacyFSGroupInjection)
           rendered == PatchedSpec(p, SpecToInject(req), req.meshConfig)
           labels == PatchLabels(p, req.revision, rendered, req.deployMeta.name)
           toSet == AnnotationsToSet(req, p, handler.partialInjection)
       IN  /\ pod' = p
           /\ IF InjectionData(req).err
              THEN \* lines 705-708 and 819-822
                   /\ counters' = handleError(counters)
                   /\ response' = toAdmissionResponse(response, "render")
                   /\ pc' = "error"
                   /\ UNCHANGED <<prevStatus, sic, annotations, patchLabels, patch>>
              ELSE /\ prevStatus' = injectionStatus(p)
                   /\ sic' = IF handler.partialInjection THEN sic ELSE rendered
                   /\ annotations' = toSet
                   /\ patchLabels' = IF handler.partialInjection THEN patchLabels ELSE labels
                   /\ \E iterA \in IterationOrders(MapKeys(toSet)), iterL \in IterationOrders(MapKeys(labels)) :
                         patch' = injectPod(req, p, handler.partialInjection, iterA, iterL)
                   /\ counters' = Increment(counters, "successful")
                   /\ response' = [response EXCEPT !.set = TRUE, !.allowed = TRUE, !.patch = TRUE]
                   /\ pc' = "inject"
    /\ applied' = 0
    /\ UNCHANGED <<req, doc, failed, handler, admitted, wh, updater, request, background>>

\* The API server admits the pod with every operation of the patch applied.
Admit ==
    /\ pc = "inject"
    /\ ~failed
    /\ applied = Len(patch)
    /\ admitted' = Append(admitted, doc)
    /\ pc' = "admitted"
    /\ UNCHANGED <<req, pod, prevStatus, sic, annotations, patchLabels, patch, doc, applied, failed,
                   handler, wh, updater,
                   serving, background>>

\* The admitted pod is submitted to the webhook again.
Resubmit ==
    /\ pc = "admitted"
    /\ Len(admitted) < MaxRuns
    /\ pc' = "start"
    /\ patch' = <<>>
    /\ applied' = 0
    /\ response' = NoResponse
    /\ UNCHANGED <<req, pod, prevStatus, sic, annotations, patchLabels, doc, failed,
                   handler, admitted, wh, updater, request, counters, background>>

\* The pods of the requests: an application container, maybe a second, with
\* or without runAsUser; a pod injected before by istioctl.
AppContainers(first, second) ==
    <<[Container("app", "app:v1") EXCEPT !.securityContext = first]>>
    \o (IF second.set THEN <<[Container("worker", "worker:v1") EXCEPT !.securityContext = second]>> ELSE <<>>)

RunAsChoices == {NoSecurityContext, RunAs(1000), RunAs(Modulus \div 2 - 1), RunAs(-1)}

PreInjected(d) ==
    LET s == Render("template-0")
    IN  [d EXCEPT !.spec.initContainers = JSONArray(s.initContainers),
                  !.spec.containers = JSONArray(@.items \o s.containers),
                  !.spec.volumes = JSONArray(s.volumes),
                  !.metadata.annotations =
                      JSONMap(@.m @@ OneEntry(SidecarStatusKey, InjectionData(
                          [DefaultParameters EXCEPT !.template = "template-0", !.version = "istioctl"]).status))]

\* The same pod whose sidecar has the securityContext sc.
PreInjectedWith(d, sc) ==
    LET injected == PreInjected(d).spec.containers.items
    IN  [PreInjected(d) EXCEPT !.spec.containers =
            JSONArray([i \in DOMAIN injected |->
                IF injected[i].name = sidecarContainerName
                THEN [injected[i] EXCEPT !.securityContext = sc]
                ELSE injected[i]])]

\* What a pod injected by istioctl looks like and what the webhook's
\* configuration adds to it: the sidecar's securityContext, the injected
\* annotations.
PreInjections ==
    {<<RunAs(DefaultSidecarProxyUID), MakeMap(<<>>)>>,
     <<[set |-> TRUE, runAsUser |-> NoInt], MakeMap(OneEntry(<<"x", "~", "y", "/", "z">>, <<"new">>))>>,
     <<NoSecurityContext, MakeMap(<<>>)>>}

RequestAnnotations(proxyUID, inject) ==
    LET f == (IF proxyUID = <<>> THEN <<>> ELSE OneEntry(proxyUIDAnnotation, proxyUID))
             @@ (IF inject = <<>> THEN <<>> ELSE OneEntry(SidecarInjectKey, inject))
    IN  IF DOMAIN f = {} THEN AbsentMap ELSE JSONMap(f)

StartWebhookAt(w, d, at) ==
    /\ response = NoResponse
    /\ counters = NoCounters
    /\ run = NotRunning
    /\ dynamic = NotStarted
    /\ handler = NoLocals
    /\ admitted = <<>>
    /\ wh = w
    /\ updater = Idle
    /\ req = DefaultParameters
    /\ pod = Unmarshal(d)
    /\ prevStatus = ShapedStatus({})
    /\ sic = ShapedSpec(<<>>, "", FALSE)
    /\ annotations = MakeMap(<<>>)
    /\ patchLabels = MakeMap(<<>>)
    /\ patch = <<>>
    /\ doc = d
    /\ applied = 0
    /\ failed = FALSE
    /\ pc = at

StartWebhook(w, d) == StartWebhookAt(w, d, "start")

\* A pod that carries the status annotation with an empty value and
\* nothing of an injection.
Annotated(d) == [d EXCEPT !.metadata.annotations = JSONMap(@.m @@ OneEntry(SidecarStatusKey, <<>>))]

InitInject ==
    /\ request = DefaultRequest
    /\ \E first \in RunAsChoices, second \in {NoSecurityContext, RunAs(2000)},
       podLevel \in {NoPodSecurityContext, [set |-> TRUE, runAsUser |-> SomeInt(1000), fsGroup |-> NoInt]},
       proxyUID \in {<<>>, <<"1", "5", "0", "0">>, <<"x">>}, inject \in {<<>>, <<"false">>},
       policy \in {"enabled", "disabled"}, pre \in {"no", "istioctl", "annotated"},
       merge \in {"unset", "false"}, legacyFSGroup \in BOOLEAN :
        \E pi \in IF pre = "istioctl" THEN PreInjections ELSE {<<NoSecurityContext, MakeMap(<<>>)>>} :
            LET d == Document(AbsentArray, JSONArray(AppContainers(first, second)), AbsentArray, AbsentArray,
                              podLevel, "", RequestAnnotations(proxyUID, inject), AbsentMap)
            IN  StartWebhook(Webhook(policy, pi[2], MeshConfig(DefaultStatusPort, merge), legacyFSGroup),
                             CASE pre = "istioctl" -> PreInjectedWith(d, pi[1])
                               [] pre = "annotated" -> Annotated(d)
                               [] OTHER -> d)

NextInject ==
    \/ InjectDecide
    \/ ReadParameters
    \/ InjectPod
    \/ ApplyOp
    \/ Admit
    \/ Resubmit

SpecInject == InitInject /\ [][NextInject]_vars

(***************************************************************************)
(* serveInject: the HTTP handler around inject.                            *)
(***************************************************************************)
\* Lines 935-975: the body read, the Content-Type checked, the review
\* decoded, inject called.  A body that is nil or cannot be read is an
\* empty body.  A body "other" decodes to an object of the scheme that is
\* not an admission review (a Pod): AdmissionReviewKubeToAdapter fails on it,
\* the failure is counted and inject is called all the same (lines 970-974)
\* with the review the adapter returned beside its error, nil or not: on
\* nil inject panics at ar.Request (line 736) and no response is written.
ServeInject ==
    /\ pc = "serve"
    /\ LET body == IF request.body \in {"nil", "unreadable"} THEN "empty" ELSE request.body
           counted == Increment(counters, "total")
       IN  IF body = "empty"
           THEN /\ counters' = handleError(counted)
                /\ response' = [response EXCEPT !.status = StatusBadRequest]
                /\ pc' = "done"
           ELSE IF request.contentType # "application/json"
           THEN /\ counters' = handleError(counted)
                /\ response' = [response EXCEPT !.status = StatusUnsupportedMediaType]
                /\ pc' = "done"
           ELSE IF body = "undecodable"
           THEN /\ counters' = handleError(counted)
                /\ response' = toAdmissionResponse(response, "decode")
                /\ pc' = "respond"
           ELSE IF body = "other"
           THEN /\ counters' = handleError(counted)
                /\ response' = response
                /\ \E ar \in {"nil", "review"} : pc' = IF ar = "nil" THEN "panic" ELSE "start"
           ELSE /\ counters' = counted
                /\ response' = response
                /\ pc' = "start"
    /\ UNCHANGED <<req, pod, prevStatus, sic, annotations, patchLabels, patch, doc, applied, failed,
                   webhook, request, background>>

\* Lines 977-999: the review with the response of inject written.
WriteResponse ==
    /\ pc \in {"respond", "skipped", "inject", "error"}
    /\ response.status = 0
    /\ response' = [response EXCEPT !.status = StatusOK, !.review = TRUE]
    /\ pc' = "done"
    /\ UNCHANGED <<req, pod, prevStatus, sic, annotations, patchLabels, patch, doc, applied, failed,
                   webhook, request, counters, background>>

\* The bodies, Content-Types and objects of the requests.
Bodies == {"nil", "unreadable", "empty", "undecodable", "other", "review"}
ContentTypes == {"application/json", "text/plain", ""}
Objects == {"pod", "garbage"}

\* The server calls serveInject for the next request, once the call before
\* has returned or panicked (net/http recovers the panic of a handler).
NextRequest ==
    /\ pc \in {"done", "panic"}
    /\ counters.total < MaxRequests
    /\ \E body \in Bodies, contentType \in ContentTypes, object \in Objects :
          request' = Request(body, contentType, request.path, object)
    /\ response' = NoResponse
    /\ req' = DefaultParameters
    /\ pod' = Unmarshal(doc)
    /\ prevStatus' = ShapedStatus({})
    /\ sic' = ShapedSpec(<<>>, "", FALSE)
    /\ annotations' = MakeMap(<<>>)
    /\ patchLabels' = MakeMap(<<>>)
    /\ patch' = <<>>
    /\ pc' = "serve"
    /\ UNCHANGED <<doc, applied, failed, webhook, counters, background>>

InitServe ==
    \E body \in Bodies,
       contentType \in ContentTypes,
       object \in Objects,
       template \in {Templates[1], BrokenTemplate},
       policy \in {"enabled", "disabled"},
       status \in BOOLEAN,
       path \in {<<"/", "inject">>, <<"/", "inject", "/", "net", "/", "n1">>} :
        LET bare == Document(AbsentArray, JSONArray(AppContainers(NoSecurityContext, NoSecurityContext)),
                             AbsentArray, AbsentArray, NoPodSecurityContext, "", AbsentMap, AbsentMap)
            w == Webhook(policy, MakeMap(<<>>), MeshConfig(DefaultStatusPort, "false"), FALSE)
        IN  /\ request = Request(body, contentType, path, object)
            /\ StartWebhookAt([w EXCEPT !.Config.Template = template], IF status THEN Annotated(bare) ELSE bare,
                              "serve")

NextServe ==
    \/ ServeInject
    \/ InjectDecide
    \/ ReadParameters
    \/ InjectPod
    \/ WriteResponse
    \/ NextRequest

SpecServe == InitServe /\ [][NextServe]_vars

(***************************************************************************)
(* parseInjectEnvs on the paths /inject, /inject/ and /inject/s1/s2/...    *)
(***************************************************************************)
SegmentChoices == {<<"cluster">>, <<"net">>, <<"foo">>, <<"FOO">>, <<>>}
SegmentLists == UNION {[1..n -> SegmentChoices] : n \in 0..MaxSegments}

RECURSIVE JoinSegments(_)
JoinSegments(segs) == IF segs = <<>> THEN <<>> ELSE <<"/">> \o segs[1] \o JoinSegments(Tail(segs))

InjectPath(segs, trailing) == <<"/", "inject">> \o JoinSegments(segs) \o (IF trailing THEN <<"/">> ELSE <<>>)

InitEnvs ==
    \E segs \in SegmentLists, trailing \in BOOLEAN :
        LET bare == Document(AbsentArray, JSONArray(AppContainers(NoSecurityContext, NoSecurityContext)),
                             AbsentArray, AbsentArray, NoPodSecurityContext, "", AbsentMap, AbsentMap)
        IN  /\ request = Request("review", "application/json", InjectPath(segs, trailing), "pod")
            /\ StartWebhookAt(DefaultWebhook, bare, "parseInjectEnvs")

\* Line 813.
ParseInjectEnvs ==
    /\ pc = "parseInjectEnvs"
    /\ req' = [req EXCEPT !.proxyEnvs = parseInjectEnvs(request.path)]
    /\ pc' = "parsed"
    /\ UNCHANGED <<pod, prevStatus, sic, annotations, patchLabels, patch, doc, applied, failed,
                   webhook, serving, background>>

NextEnvs == ParseInjectEnvs

SpecEnvs == InitEnvs /\ [][NextEnvs]_vars

(***************************************************************************)
(* Webhook.Run: the health check file written on every tick until the stop *)
(* channel is closed.  The ticker and whoever closes stop are the          *)
(* environment.  A select with several ready cases takes any of them.      *)
(***************************************************************************)
UnchangedButRun ==
    UNCHANGED <<req, pod, prevStatus, sic, annotations, patchLabels, patch, doc, applied, failed, pc,
                webhook, serving, dynamic>>

\* Lines 199-210: the watcher started, the ticker made if the health check
\* is configured.
RunStart ==
    /\ run.pc = "idle"
    /\ run' = [run EXCEPT !.pc = "select", !.watcher = TRUE,
                          !.healthC = (run.healthCheckInterval # 0 /\ run.healthCheckFile # "")]
    /\ UnchangedButRun

\* The ticker sends on its channel, which holds one tick; a tick that finds
\* the channel full is dropped.
Tick ==
    /\ run.healthC
    /\ ~run.tickerStopped
    /\ ~run.tick
    /\ run' = [run EXCEPT !.tick = TRUE]
    /\ UnchangedButRun

\* The stop channel is closed.
CloseStop ==
    /\ ~run.stop
    /\ run' = [run EXCEPT !.stop = TRUE]
    /\ UnchangedButRun

\* The cases of the select that can proceed, in the order of the source.
SelectReadyInOrder(r) ==
    IF r.healthC /\ r.tick THEN {"healthC"} ELSE IF r.stop THEN {"stop"} ELSE {}
SelectReady(r) ==
    (IF r.healthC /\ r.tick THEN {"healthC"} ELSE {}) \cup (IF r.stop THEN {"stop"} ELSE {})

\* Line 214: the tick received.
SelectHealth ==
    /\ run.pc = "select"
    /\ "healthC" \in SelectReady(run)
    /\ run' = [run EXCEPT !.pc = "write", !.tick = FALSE]
    /\ UnchangedButRun

\* Lines 215-218: ok written to the file; a failure is logged.  A write that
\* fails leaves the file as it was or empty.
WriteHealthFile ==
    /\ run.pc = "write"
    /\ \/ run' = [run EXCEPT !.pc = "select", !.content = "ok", !.lastWrite = "ok",
                             !.writes = IF @ < MaxWrites THEN @ + 1 ELSE @]
       \/ \E left \in {run.content, ""} :
             run' = [run EXCEPT !.pc = "select", !.content = left, !.lastWrite = "failed"]
    /\ UnchangedButRun

\* Lines 219-220 and the deferred calls: the ticker stopped, the monitoring
\* server closed.
SelectStop ==
    /\ run.pc = "select"
    /\ "stop" \in SelectReady(run)
    /\ run' = [run EXCEPT !.pc = "returned", !.tickerStopped = run.healthC, !.monClosed = run.mon]
    /\ UnchangedButRun

InitRun ==
    \E interval \in {0, 1}, file \in {"", "health"}, mon \in BOOLEAN :
        /\ StartRequestOnly(DefaultParameters, ShapedPod(<<>>, NilMap, NilMap, NoPodSecurityContext),
                            ShapedStatus({}), ShapedSpec(<<>>, "", FALSE), MakeMap(<<>>), MakeMap(<<>>), NoDoc)
        /\ run = Runner(interval, file, mon)
        /\ dynamic = NotStarted

NextRun ==
    \/ RunStart
    \/ Tick
    \/ CloseStop
    \/ SelectHealth
    \/ WriteHealthFile
    \/ SelectStop

SpecRun == InitRun /\ [][NextRun]_vars

\* Run is called, a write to the file ends, and the select, which takes one
\* of its ready cases at random, takes the stop case in the end if that is
\* ready again and again.
FairSpecRun ==
    SpecRun /\ WF_vars(RunStart) /\ WF_vars(SelectHealth) /\ WF_vars(WriteHealthFile) /\ SF_vars(SelectStop)

(***************************************************************************)
(* The dynamic source of galley (source.go): Start and Stop under          *)
(* stateLock, the informer goroutine that hands events to handleEvent, and *)
(* the goroutine that waits for the cache to sync and sends FullSyncEvent. *)
(* The goroutines take no lock.                                            *)
(***************************************************************************)
UnchangedButDynamic ==
    UNCHANGED <<req, pod, prevStatus, sic, annotations, patchLabels, patch, doc, applied, failed, pc,
                webhook, serving, run>>

\* The goroutines of a Start: the informer runs on the channel the go
\* statement evaluated (line 146); the other goroutine has not read
\* s.stopCh yet.
Goroutines(ch) ==
    [informer |-> "running", stopCh |-> ch, synced |-> FALSE, event |-> FALSE, handler |-> 0,
     sync |-> "go", ch |-> 0]

\* An invocation of the handler that Start number h was given, with
\* FullSyncEvent or with the event of a resource.
Invocation(h, kind) == [handler |-> h, event |-> kind, stopped |-> h \in dynamic.stopped]

\* A caller calls Start (with a handler or with nil) or Stop, and gets
\* past s.stateLock.Lock() once no other call holds the lock.
Lock ==
    \E c \in Callers, op \in {"Start", "StartNil", "Stop"} :
        /\ dynamic.callers[c].pc = "idle"
        /\ op = "Start" => dynamic.starts < MaxStarts
        /\ dynamic.stateLock = 0
        /\ dynamic' = [dynamic EXCEPT
                          !.stateLock = c,
                          !.callers[c] = [pc |-> "locked", op |-> op, result |-> "none", closed |-> 0]]
        /\ UnchangedButDynamic

\* Lines 96-155, under the lock.
StartLocked ==
    \E c \in Callers :
        /\ dynamic.callers[c].pc = "locked"
        /\ dynamic.callers[c].op \in {"Start", "StartNil"}
        /\ LET n == dynamic.starts + 1
           IN  dynamic' =
                 IF dynamic.stopCh # 0
                 THEN [dynamic EXCEPT !.callers[c].pc = "unlock", !.callers[c].result = "already synchronizing"]
                 ELSE IF dynamic.callers[c].op = "StartNil"
                 THEN [dynamic EXCEPT !.callers[c].pc = "unlock", !.callers[c].result = "invalid event handler"]
                 ELSE [dynamic EXCEPT !.callers[c].pc = "unlock", !.callers[c].result = "nil",
                                      !.starts = n, !.stopCh = n, !.handler = n, !.informer = n,
                                      !.goroutines = Append(@, Goroutines(n))]
        /\ UnchangedButDynamic

\* Lines 159-169, under the lock.
StopLocked ==
    \E c \in Callers :
        /\ dynamic.callers[c].pc = "locked"
        /\ dynamic.callers[c].op = "Stop"
        /\ dynamic' =
              IF dynamic.stopCh = 0
              THEN [dynamic EXCEPT !.callers[c].pc = "unlock", !.callers[c].result = "already stopped"]
              ELSE [dynamic EXCEPT !.callers[c].pc = "unlock", !.callers[c].result = "stopped",
                                   !.callers[c].closed = dynamic.stopCh,
                                   !.closed = @ \cup {dynamic.stopCh},
                                   !.closes = @ + 1,
                                   !.stopCh = 0]
        /\ UnchangedButDynamic

\* The deferred Unlock and the return; a Stop that closed a channel has
\* stopped the Start that made it.
Unlock ==
    \E c \in Callers :
        /\ dynamic.callers[c].pc = "unlock"
        /\ dynamic' = [dynamic EXCEPT
                          !.stateLock = 0,
                          !.callers[c] = NoCall,
                          !.stopped = IF dynamic.callers[c].closed # 0
                                      THEN @ \cup {dynamic.callers[c].closed} ELSE @]
        /\ UnchangedButDynamic

\* The informer's cache has synced.
InformerSynced ==
    \E g \in DOMAIN dynamic.goroutines :
        /\ dynamic.goroutines[g].informer = "running"
        /\ ~dynamic.goroutines[g].synced
        /\ dynamic' = [dynamic EXCEPT !.goroutines[g].synced = TRUE]
        /\ UnchangedButDynamic

\* The informer calls AddFunc, UpdateFunc or DeleteFunc (lines 127-140) and
\* handleEvent runs up to the handler's call: an update with the resource
\* version unchanged is dropped, so is an object that is not recovered from
\* its tombstone or that the converter fails on or has no entry for;
\* s.handler is read for the call of processEvent.  The informer is taken to
\* start no notification once its channel is closed.
HandleEvent ==
    \E g \in DOMAIN dynamic.goroutines,
       kind \in {"Added", "Updated", "Deleted"},
       outcome \in {"same resource version", "no object", "converter error", "no entries", "entry"} :
        /\ dynamic.goroutines[g].informer = "running"
        /\ ~dynamic.goroutines[g].event
        /\ dynamic.goroutines[g].stopCh \notin dynamic.closed
        /\ dynamic.events < MaxEvents
        /\ outcome = "same resource version" => kind = "Updated"
        /\ dynamic' = [dynamic EXCEPT
                          !.events = @ + 1,
                          !.goroutines[g].event = (outcome = "entry"),
                          !.goroutines[g].handler = IF outcome = "entry" THEN dynamic.handler ELSE 0]
        /\ UnchangedButDynamic

\* Line 257: handler(event).
Dispatch ==
    \E g \in DOMAIN dynamic.goroutines :
        /\ dynamic.goroutines[g].event
        /\ dynamic' = [dynamic EXCEPT
                          !.calls = @ \cup {Invocation(dynamic.goroutines[g].handler, "Resource")},
                          !.goroutines[g].event = FALSE,
                          !.goroutines[g].handler = 0]
        /\ UnchangedButDynamic

\* informer.Run returns once its channel is closed.
InformerExit ==
    \E g \in DOMAIN dynamic.goroutines :
        /\ dynamic.goroutines[g].informer = "running"
        /\ ~dynamic.goroutines[g].event
        /\ dynamic.goroutines[g].stopCh \in dynamic.closed
        /\ dynamic' = [dynamic EXCEPT !.goroutines[g].informer = "exited"]
        /\ UnchangedButDynamic

\* Line 151: the goroutine reads s.stopCh for the call of WaitForCacheSync.
SyncReadStopCh ==
    \E g \in DOMAIN dynamic.goroutines :
        /\ dynamic.goroutines[g].sync = "go"
        /\ dynamic' = [dynamic EXCEPT !.goroutines[g].sync = "wait", !.goroutines[g].ch = dynamic.stopCh]
        /\ UnchangedButDynamic

\* WaitForCacheSync returns: the cache has synced, or the channel it was
\* given is closed (a nil channel never is).
WaitForCacheSync ==
    \E g \in DOMAIN dynamic.goroutines :
        /\ dynamic.goroutines[g].sync = "wait"
        /\ dynamic.goroutines[g].synced \/ dynamic.goroutines[g].ch \in dynamic.closed
        /\ dynamic' = [dynamic EXCEPT !.goroutines[g].sync = "call"]
        /\ UnchangedButDynamic

\* Line 152: handler(resource.FullSyncEvent), with the handler Start was given.
SendFullSync ==
    \E g \in DOMAIN dynamic.goroutines :
        /\ dynamic.goroutines[g].sync = "call"
        /\ dynamic' = [dynamic EXCEPT !.calls = @ \cup {Invocation(g, "FullSync")},
                                      !.goroutines[g].sync = "done"]
        /\ UnchangedButDynamic

InitSource ==
    /\ StartRequestOnly(DefaultParameters, ShapedPod(<<>>, NilMap, NilMap, NoPodSecurityContext),
                        ShapedStatus({}), ShapedSpec(<<>>, "", FALSE), MakeMap(<<>>), MakeMap(<<>>), NoDoc)
    /\ run = NotRunning
    /\ dynamic = NotStarted

NextSource ==
    \/ Lock
    \/ StartLocked
    \/ StopLocked
    \/ Unlock
    \/ InformerSynced
    \/ HandleEvent
    \/ Dispatch
    \/ InformerExit
    \/ SyncReadStopCh
    \/ WaitForCacheSync
    \/ SendFullSync

SpecSource == InitSource /\ [][NextSource]_vars

(***************************************************************************)
(* The proxy UID and GID over the range of runAsUser: inject on pods whose *)
(* pod-level and container-level runAsUser take the values at the ends of  *)
(* int64 and about zero.                                                   *)
(***************************************************************************)
MaxInt64 == Modulus \div 2 - 1
MinInt64 == -(Modulus \div 2)

RunAsUserValues == {-2, -1, 0, 1000, MaxInt64 - 1, MaxInt64, MinInt64}
ContainerContexts == {NoSecurityContext, [set |-> TRUE, runAsUser |-> NoInt]} \cup {RunAs(v) : v \in RunAsUserValues}
PodContexts ==
    {NoPodSecurityContext}
    \cup {[set |-> TRUE, runAsUser |-> SomeInt(v), fsGroup |-> NoInt] : v \in {-2, -1, 1000, 2000, MaxInt64}}

InitUID ==
    /\ request = DefaultRequest
    /\ \E first \in ContainerContexts, second \in ContainerContexts, podLevel \in PodContexts,
          proxyUID \in {<<>>, <<"1", "5", "0", "0">>, <<"x">>, <<"-", "1">>} :
           StartWebhook(Webhook("enabled", MakeMap(<<>>), MeshConfig(DefaultStatusPort, "false"), FALSE),
                        Document(AbsentArray, JSONArray(AppContainers(first, second)), AbsentArray, AbsentArray,
                                 podLevel, "", RequestAnnotations(proxyUID, <<>>), AbsentMap))

NextUID ==
    \/ InjectDecide
    \/ ReadParameters
    \/ InjectPod

SpecUID == InitUID /\ [][NextUID]_vars

(***************************************************************************)
(* Webhook.updateConfig beside a request.  Its writes are made under the   *)
(* write lock and no reader takes the lock, so nothing orders them for a   *)
(* reader; each is a step of its own.                                      *)
(***************************************************************************)
ConfigWrites == {"Config", "valuesConfig", "sidecarTemplateVersion"}

\* Lines 226-227: the version of the new template, and the lock.
UpdateConfigLock ==
    /\ updater.pc = "idle"
    /\ updater.count < MaxUpdates
    /\ wh.mu = "unlocked"
    /\ \E policy \in {"enabled", "disabled"} :
          LET u == Update(updater.count + 1, policy, MakeMap(<<>>))
          IN  updater' = [pc |-> "locked", count |-> updater.count + 1, config |-> u.config,
                          values |-> u.values,
                          version |-> sidecarTemplateVersionHash(u.config.Template), written |-> {}]
    /\ wh' = [wh EXCEPT !.mu = "updateConfig"]
    /\ UNCHANGED <<req, pod, prevStatus, sic, annotations, patchLabels, patch, doc, applied, failed, pc,
                   handler, admitted,
                   serving, background>>

WriteField(field, value) ==
    /\ updater.pc = "locked"
    /\ field \notin updater.written
    /\ wh' = [wh EXCEPT ![field] = value]
    /\ updater' = [updater EXCEPT !.written = @ \cup {field}]
    /\ UNCHANGED <<req, pod, prevStatus, sic, annotations, patchLabels, patch, doc, applied, failed, pc,
                   handler, admitted,
                   serving, background>>

\* Lines 228-230.
WriteFields ==
    \/ WriteField("Config", updater.config)
    \/ WriteField("valuesConfig", updater.values)
    \/ WriteField("sidecarTemplateVersion", updater.version)

UpdateConfigUnlock ==
    /\ updater.pc = "locked"
    /\ updater.written = ConfigWrites
    /\ wh' = [wh EXCEPT !.mu = "unlocked"]
    /\ updater' = [updater EXCEPT !.pc = "idle"]
    /\ UNCHANGED <<req, pod, prevStatus, sic, annotations, patchLabels, patch, doc, applied, failed, pc,
                   handler, admitted,
                   serving, background>>

InitConfig ==
    /\ request = DefaultRequest
    /\ \E policy \in {"enabled", "disabled"}, pre \in BOOLEAN :
        LET d == Document(AbsentArray, JSONArray(AppContainers(NoSecurityContext, NoSecurityContext)),
                          AbsentArray, AbsentArray, NoPodSecurityContext, "", AbsentMap, AbsentMap)
        IN  StartWebhook(Webhook(policy, MakeMap(<<>>), MeshConfig(DefaultStatusPort, "false"), FALSE),
                         IF pre THEN PreInjected(d) ELSE d)

NextConfig ==
    \/ InjectDecide
    \/ ReadParameters
    \/ InjectPod
    \/ UpdateConfigLock
    \/ WriteFields
    \/ UpdateConfigUnlock

SpecConfig == InitConfig /\ [][NextConfig]_vars

(***************************************************************************)
(* What the claims read from a patch.                                      *)
(***************************************************************************)
\* The index an operation addresses in the array at base: the number i when
\* the path is base/i, -1 otherwise.
IndexUnder(path, base) ==
    LET toks == PointerTokens(path)
        b == PointerTokens(base)
    IN  IF Len(toks) = Len(b) + 1 /\ SubSeq(toks, 1, Len(b)) = b
        THEN ArrayIndex(toks[Len(toks)])
        ELSE -1

Called(fn, kind) == pc = At(fn, kind)

\* C2: the removes of one call are one per element whose name is in the
\* removed names, none for another element, in strictly descending index
\* order.
RemovesDescending(items, removed, base) ==
    LET idx == [k \in DOMAIN patch |-> IndexUnder(patch[k].path, base)]
    IN  /\ \A k \in DOMAIN patch :
              /\ patch[k].op = "remove"
              /\ idx[k] >= 0
              /\ k > 1 => idx[k] < idx[k - 1]
        /\ {idx[k] : k \in DOMAIN patch}
              = {i \in 0..(Len(items) - 1) : items[i + 1].name \in Range(removed)}

C2_RemovesDescending ==
    \A kind \in Kinds :
        (\/ Called("removeContainers", kind)
         \/ Called("removeVolumes", kind)
         \/ Called("removeImagePullSecrets", kind))
            => RemovesDescending(pod[kind], prevStatus[kind], KindPath(kind))

C2_Witness ==
    /\ Called("removeContainers", "containers")
    /\ Len(patch) = 2
    /\ Len(pod.containers) = 3
    /\ pod.containers[2].name \notin Range(prevStatus.containers)

\* The tokens of base followed by one more token.
TokensUnder(path, base) ==
    LET toks == PointerTokens(path)
        b == PointerTokens(base)
    IN  Len(toks) = Len(b) + 1 /\ SubSeq(toks, 1, Len(b)) = b

LastToken(path) == LET toks == PointerTokens(path) IN toks[Len(toks)]

\* The key a map operation sets: the last token of a per-key path, or the
\* one key of the map an add at the map's own path carries.
OpKey(o) == IF o.value.kind = "map" THEN CHOOSE k \in DOMAIN o.value.v : TRUE ELSE LastToken(o.path)

\* C9: one add per element of the rendered list, in its order: the first at
\* the bare path with a one-element list when the target is empty, a front
\* container at <path>/0, any other at <path>/-.
InFront(c) ==
    \/ c.name = "istio-validation"
    \/ c.name = "istio-proxy" /\ sic.holdApplicationUntilProxyStarts

AddsAsRendered(target, added, base, containers) ==
    /\ Len(patch) = Len(added)
    /\ \A k \in DOMAIN patch :
          /\ patch[k].op = "add"
          /\ IF k = 1 /\ Len(target) = 0
             THEN /\ patch[k].path = base
                  /\ patch[k].value.kind = "list"
                  /\ Len(patch[k].value.v) = 1
                  /\ patch[k].value.v[1].name = added[k].name
             ELSE /\ TokensUnder(patch[k].path, base)
                  /\ LastToken(patch[k].path) = IF containers /\ InFront(added[k]) THEN <<"0">> ELSE <<"-">>
                  /\ patch[k].value.kind = "elem"
                  /\ patch[k].value.v.name = added[k].name

C9_ArrayAdds ==
    \A kind \in Kinds :
        /\ Called("addContainer", kind)
              => AddsAsRendered(pod[kind], sic[kind], KindPath(kind), TRUE)
        /\ (Called("addVolume", kind) \/ Called("addImagePullSecrets", kind))
              => AddsAsRendered(pod[kind], sic[kind], KindPath(kind), FALSE)

C9_Witness ==
    /\ Called("addContainer", "containers")
    /\ pod.containers = <<>>
    /\ Len(patch) = 2
    /\ sic.containers[1].name = "istio-validation"
    /\ sic.containers[2].name = "istio-proxy"
    /\ sic.holdApplicationUntilProxyStarts
    /\ patch[1].path = PathContainers
    /\ LastToken(patch[2].path) = <<"0">>

\* C7: every label operation is an add for a key the pod does not carry with
\* a non-empty value, and an add of the whole map only when the pod has no
\* labels.
C7_LabelsNeverOverwrite ==
    Called("addLabels", "labels") =>
        \A k \in DOMAIN patch :
            /\ patch[k].op = "add"
            /\ MapGet(pod.labels, OpKey(patch[k])) = <<>>
            /\ \/ TokensUnder(patch[k].path, PathLabels) /\ patch[k].value.kind = "str"
               \/ /\ patch[k].path = PathLabels
                  /\ patch[k].value.kind = "map"
                  /\ MapKeys(pod.labels) = {}

C7_Witness ==
    /\ Called("addLabels", "labels")
    /\ \E key \in MapKeys(patchLabels) : MapGet(pod.labels, key) # <<>>
    /\ \E key \in MapKeys(patchLabels) : MapHas(pod.labels, key) /\ MapGet(pod.labels, key) = <<>>
    /\ Len(patch) = 2

\* C8: the keys set by the operations of updateAnnotation, and of addLabels,
\* are strictly ascending in byte order (so no key twice), whatever order
\* the map iteration had.
KeysAscending == \A k \in DOMAIN patch : k > 1 => StrLess(OpKey(patch[k - 1]), OpKey(patch[k]))

C8_SortedKeys ==
    /\ Called("updateAnnotation", "annotations") =>
          /\ KeysAscending
          /\ {OpKey(patch[k]) : k \in DOMAIN patch} = MapKeys(annotations)
          /\ \A iter \in Perms(MapKeys(annotations)) :
                updateAnnotation(pod.annotations, annotations, iter) = patch
    /\ Called("addLabels", "labels") =>
          /\ KeysAscending
          /\ \A iter \in Perms(MapKeys(patchLabels)) :
                addLabels(pod.labels, patchLabels, iter) = patch

C8_Witness ==
    /\ Called("updateAnnotation", "annotations")
    /\ Len(patch) = 3
    /\ ~pod.annotations.isNil
    /\ OpKey(patch[3]) = <<"x", "~", "y", "/", "z">>

\* C10 as stated: with an empty annotation map the first key is an add of a
\* single-entry map at /metadata/annotations and the later keys are set at
\* their own paths; with a map that is not empty every key is set at its
\* own path, by replace when the pod has a non-empty value and add otherwise.
AnnotationOps(wholeMapFirst) ==
    /\ Len(patch) = Cardinality(MapKeys(annotations))
    /\ \A k \in DOMAIN patch :
          IF wholeMapFirst /\ k = 1
          THEN /\ patch[k].op = "add"
               /\ patch[k].path = PathAnnotations
               /\ patch[k].value.kind = "map"
               /\ Cardinality(DOMAIN patch[k].value.v) = 1
               /\ patch[k].value.v[OpKey(patch[k])] = MapGet(annotations, OpKey(patch[k]))
          ELSE /\ patch[k].path = PathAnnotations \o <<"/">> \o escapeJSONPointerValue(OpKey(patch[k]))
               /\ patch[k].value.kind = "str"
               /\ patch[k].value.v = MapGet(annotations, OpKey(patch[k]))
               /\ wholeMapFirst \/
                     patch[k].op = IF MapGet(pod.annotations, OpKey(patch[k])) # <<>> THEN "replace" ELSE "add"

C10_AsStated ==
    Called("updateAnnotation", "annotations") => AnnotationOps(MapKeys(pod.annotations) = {})

\* C10 amended: the add of the map at /metadata/annotations is for a nil
\* map (the pod has no annotations field); a map that is present, with or
\* without entries, gets every key at its own path.
C10_AnnotationOps ==
    Called("updateAnnotation", "annotations") => AnnotationOps(pod.annotations.isNil)

C10_Witness ==
    /\ Called("updateAnnotation", "annotations")
    /\ ~pod.annotations.isNil
    /\ MapKeys(pod.annotations) = {}
    /\ Len(patch) = 2
    /\ patch[1].op = "add"
    /\ TokensUnder(patch[1].path, PathAnnotations)

(***************************************************************************)
(* What the claims read from a patch applied to the pod's document.        *)
(***************************************************************************)
PatchApplied == pc = "createPatch" /\ ~failed /\ applied = Len(patch)

Names(items) == {items[i].name : i \in DOMAIN items}

\* An element but for the probe the rewriter may have replaced.
Strip(e) == IF "readinessProbe" \in DOMAIN e THEN [e EXCEPT !.readinessProbe = "none"] ELSE e

RECURSIVE IsSubsequence(_, _)
IsSubsequence(a, b) ==
    IF a = <<>> THEN TRUE
    ELSE IF b = <<>> THEN FALSE
    ELSE IF Strip(a[1]) = Strip(b[1]) THEN IsSubsequence(Tail(a), Tail(b))
    ELSE IsSubsequence(a, Tail(b))

\* C1: once every operation of createPatch's patch is applied, for each of
\* the four arrays (a) an element named in the previous status remains only
\* if the rendered spec has an element of that name, (b) every element of
\* the rendered spec is there, containers as rendered but for the mounts
\* createPatch gives the sidecar, and (c) the pod's elements not named in
\* the previous status are there in their original order.
C1_PostImage ==
    PatchApplied =>
        \A kind \in Kinds :
            LET after == doc.spec[kind].items
                kept == SelectSeq(pod[kind], LAMBDA e : e.name \notin Range(prevStatus[kind]))
            IN  /\ \A i \in DOMAIN after :
                      after[i].name \in Range(prevStatus[kind]) => after[i].name \in Names(sic[kind])
                /\ \A j \in DOMAIN sic[kind] :
                      \E i \in DOMAIN after :
                          IF kind \in {"initContainers", "containers"}
                          THEN /\ after[i].name = sic[kind][j].name
                               /\ after[i].image = sic[kind][j].image
                               /\ after[i].env = sic[kind][j].env
                          ELSE after[i] = sic[kind][j]
                /\ IsSubsequence(kept, after)

C1_Witness ==
    /\ PatchApplied
    /\ Len(pod.containers) = 3
    /\ pod.containers[1].name = "istio-proxy"
    /\ pod.containers[2].name = "app"
    /\ pod.containers[3].name = "istio-proxy"
    /\ Range(prevStatus.containers) = {"istio-proxy", "istio-validation"}
    /\ Len(sic.containers) = 2
    /\ Len(doc.spec.containers.items) = 3
    /\ Len(doc.spec.volumes.items) = 3
    /\ \E k \in DOMAIN patch : patch[k].op = "remove"

\* The stage of createPatch an operation belongs to by its op and path, -1
\* for an operation of no stage.
StageOf(o) ==
    LET toks == PointerTokens(o.path)
        n == Len(toks)
        array == CASE toks[2] = <<"initContainers">> -> 1
                   [] toks[2] = <<"containers">> -> 2
                   [] toks[2] = <<"volumes">> -> 3
                   [] toks[2] = <<"imagePullSecrets">> -> 4
                   [] OTHER -> 0
    IN  IF n < 2 THEN -1
        ELSE IF toks[1] = <<"spec">> /\ array > 0
        THEN CASE o.op = "replace" /\ n = 4 /\ array = 2 /\ toks[4] = <<"readinessProbe">> -> 0
               [] o.op = "remove" /\ n = 3 /\ ArrayIndex(toks[3]) >= 0 -> array
               [] o.op = "add" /\ n \in {2, 3} -> 4 + array
               [] OTHER -> -1
        ELSE IF toks[1] = <<"spec">> /\ n = 2 /\ o.op = "add"
        THEN CASE toks[2] = <<"dnsConfig">> -> 9
               [] toks[2] = <<"securityContext">> -> 10
               [] OTHER -> -1
        ELSE IF toks[1] = <<"metadata">> /\ n \in {2, 3}
        THEN CASE toks[2] = <<"annotations">> /\ o.op \in {"add", "replace"} -> 11
               [] toks[2] = <<"labels">> /\ o.op = "add" -> 12
               [] OTHER -> -1
        ELSE -1

StagesOf(ops) == {StageOf(ops[k]) : k \in DOMAIN ops}

\* C5: the operations of createPatch come stage by stage: probe replaces,
\* the removes by array, the adds by array, the dnsConfig add exactly when
\* the rendered spec has one, the securityContext add exactly when the pod
\* has one, the annotation operations, the label adds; no remove follows an
\* add.
C5_FixedOrder ==
    pc = "createPatch" /\ applied = 0 =>
        LET stage == [k \in DOMAIN patch |-> StageOf(patch[k])]
        IN  /\ \A k \in DOMAIN patch :
                  /\ stage[k] >= 0
                  /\ k > 1 => stage[k - 1] <= stage[k]
            /\ \A j, k \in DOMAIN patch : patch[j].op = "add" /\ j < k => patch[k].op # "remove"
            /\ Cardinality({k \in DOMAIN patch : stage[k] = 9}) = IF sic.dnsConfig # "" THEN 1 ELSE 0
            /\ Cardinality({k \in DOMAIN patch : stage[k] = 10}) = IF pod.securityContext.set THEN 1 ELSE 0

C5_Witness ==
    /\ pc = "createPatch"
    /\ applied = 0
    /\ {0, 1, 2, 3, 4, 5, 6, 7, 8, 9, 10, 11, 12} \subseteq StagesOf(patch)

\* Whether the operation is an add at the path of an array or map itself
\* while the document has elements there.
Discards(d, o) ==
    /\ o.op = "add"
    /\ \/ \E kind \in Kinds : o.path = KindPath(kind) /\ d.spec[kind].items # <<>>
       \/ o.path = PathAnnotations /\ DOMAIN d.metadata.annotations.m # {}
       \/ o.path = PathLabels /\ DOMAIN d.metadata.labels.m # {}

\* C6: no operation of createPatch's patch is rejected, and the next one
\* to apply finds its target (remove, replace) or its parent (add) in the
\* document as the operations before it left it, and is not an add at an
\* array's or map's own path over elements.
C6_PatchValid ==
    pc = "createPatch" =>
        /\ ~failed
        /\ applied < Len(patch) =>
              /\ Apply(doc, patch[applied + 1]).ok
              /\ ~Discards(doc, patch[applied + 1])

C6_Witness ==
    /\ PatchApplied
    /\ pod.volumes = <<>>
    /\ pod.annotations.isNil
    /\ pod.labels.isNil
    /\ Len(doc.spec.volumes.items) = 2
    /\ Len(doc.spec.containers.items) = 2
    /\ doc.metadata.annotations.present
    /\ Cardinality(DOMAIN doc.metadata.labels.m) = 4

\* C3 as stated: the pod the webhook injects in full, admitted and
\* submitted again, is admitted the second time as the same document: the
\* same containers, the sidecar's runAsUser and environment, annotations.
C3_Idempotent ==
    Len(admitted) >= 2 /\ ~handler.partialInjection => admitted[2] = admitted[1]

\* C4 as stated: the parameters of a request hold the template, values and
\* version of one update, the one whose Config decided the injection, so
\* the version is the hash of the template.
C4_ConfigAtomic ==
    pc = "inject" =>
        /\ req.version = sidecarTemplateVersionHash(req.template)
        /\ \E k \in 0..MaxUpdates : req.template = Templates[k + 1] /\ req.valuesConfig = ValuesFiles[k + 1]
        /\ handler.config.Template = req.template
        /\ handler.config.InjectedAnnotations = req.injectedAnnotations

\* C11: in Webhook.inject, a pod that needs no injection and has no
\* sidecar-status annotation is allowed without a patch, the skipped counter
\* goes up by one and the other counters stay; with the annotation, whatever
\* its value, the request goes on as a partial injection; a pod that needs
\* injection goes on as a full injection.
C11_Decision ==
    [][pc = "start" /\ pc' # "start" /\ request.object = "pod" =>
        LET p == Unmarshal(doc)
        IN  IF injectRequired(wh.Config, p)
            THEN pc' = "params" /\ ~handler'.partialInjection /\ counters' = counters /\ response' = response
            ELSE IF SidecarStatusKey \in DOMAIN p.annotations.m
            THEN pc' = "params" /\ handler'.partialInjection /\ counters' = counters /\ response' = response
            ELSE /\ pc' = "skipped"
                 /\ response'.set /\ response'.allowed /\ ~response'.patch /\ response'.message = ""
                 /\ counters'.skipped = counters.skipped + 1
                 /\ counters'.successful = counters.successful
                 /\ counters'.failed = counters.failed]_vars

\* A pod that needs no injection and has no status annotation was skipped.
C11_Witness ==
    /\ pc = "skipped"
    /\ ~injectRequired(handler.config, pod)
    /\ ~MapHas(pod.annotations, SidecarStatusKey)
    /\ counters.skipped = 1
    /\ response.allowed /\ ~response.patch

\* What an operation of a partial injection is by its op, path and value:
\* "uid" for the replace of the argument after -u in istio-init, "runAsUser"
\* for the one operation on istio-proxy, "annotation" for an update of an
\* annotation, "other" for anything else.
PartialKind(o) ==
    LET toks == PointerTokens(o.path)
        n == Len(toks)
        i == IF n >= 3 THEN ArrayIndex(toks[3]) + 1 ELSE 0
        j == IF n >= 5 THEN ArrayIndex(toks[5]) ELSE 0
    IN  IF n >= 2 /\ toks[1] = <<"metadata">> /\ toks[2] = <<"annotations">> /\ o.op \in {"add", "replace"}
        THEN "annotation"
        ELSE IF /\ n = 5 /\ toks[1] = <<"spec">> /\ toks[2] = <<"initContainers">> /\ toks[4] = <<"args">>
                /\ o.op = "replace"
                /\ i \in DOMAIN pod.initContainers /\ pod.initContainers[i].name = "istio-init"
                /\ j \in DOMAIN pod.initContainers[i].args /\ pod.initContainers[i].args[j] = <<"-u">>
                /\ o.value = Value("str", Itoa(req.proxyUID))
        THEN "uid"
        ELSE IF /\ n \in {4, 5} /\ toks[1] = <<"spec">> /\ toks[2] = <<"containers">>
                /\ toks[4] = <<"securityContext">>
                /\ i \in DOMAIN pod.containers /\ pod.containers[i].name = "istio-proxy"
                /\ LET sc == pod.containers[i].securityContext
                   IN  IF ~sc.set
                       THEN /\ n = 4 /\ o.op = "add"
                            /\ o.value = Value("containerSecurityContext", RunAs(ToInt64(req.proxyUID)))
                       ELSE /\ n = 5 /\ toks[5] = <<"runAsUser">>
                            /\ o.op = (IF sc.runAsUser.set THEN "replace" ELSE "add")
                            /\ o.value = Value("uint", req.proxyUID)
        THEN "runAsUser"
        ELSE "other"

PartialRank(o) ==
    CASE PartialKind(o) = "uid" -> 1
      [] PartialKind(o) = "runAsUser" -> 2
      [] PartialKind(o) = "annotation" -> 3
      [] OTHER -> 0

PodRunAsUser == IF pod.securityContext.set THEN pod.securityContext.runAsUser ELSE NoInt
ContainerRunAsUsers ==
    LET set == SelectSeq(pod.containers, LAMBDA c : c.securityContext.set /\ c.securityContext.runAsUser.set)
    IN  [i \in DOMAIN set |-> set[i].securityContext.runAsUser.v]
Max(S) == CHOOSE x \in S : \A y \in S : y <= x
AnnotatedUID == ParseUint(MapGet(pod.annotations, proxyUIDAnnotation))
Annotated64 == MapHas(pod.annotations, proxyUIDAnnotation) /\ ~AnnotatedUID.err
Resolved == pc \in {"params", "inject"}

\* C13 as stated: a strict priority, the annotation, then the pod-level
\* runAsUser (UID that value + 1, GID that value), then the containers (UID
\* the greatest runAsUser + 1, GID the first runAsUser), then 1337 for both.
C13_AsStated ==
    Resolved =>
        IF Annotated64 THEN req.proxyUID = AnnotatedUID.v
        ELSE IF PodRunAsUser.set
        THEN req.proxyUID = ToUint64(PodRunAsUser.v + 1) /\ req.proxyGID = SomeInt(PodRunAsUser.v)
        ELSE IF ContainerRunAsUsers # <<>>
        THEN /\ req.proxyUID = ToUint64(Max(Range(ContainerRunAsUsers)) + 1)
             /\ req.proxyGID = SomeInt(ContainerRunAsUsers[1])
        ELSE req.proxyUID = DefaultSidecarProxyUID /\ req.proxyGID = SomeInt(DefaultSidecarProxyUID)

\* C13: the annotation, if it parses, is the UID, with 1337 for the GID;
\* otherwise the UID is the greatest of uint64(runAsUser) + 1 (in uint64)
\* over the pod-level runAsUser and the runAsUser of every container, and
\* the GID is the pod-level runAsUser, or without one the first container
\* runAsUser; with no runAsUser at all both are 1337.
C13_Resolution ==
    Resolved =>
        LET all == (IF PodRunAsUser.set THEN {PodRunAsUser.v} ELSE {}) \cup Range(ContainerRunAsUsers)
        IN  IF Annotated64
            THEN req.proxyUID = AnnotatedUID.v /\ req.proxyGID = SomeInt(DefaultSidecarProxyUID)
            ELSE /\ req.proxyUID = IF all = {} THEN DefaultSidecarProxyUID
                                   ELSE Max({(v + 1) % Modulus : v \in all})
                 /\ req.proxyGID = IF PodRunAsUser.set THEN SomeInt(PodRunAsUser.v)
                                   ELSE IF ContainerRunAsUsers # <<>> THEN SomeInt(ContainerRunAsUsers[1])
                                   ELSE SomeInt(DefaultSidecarProxyUID)

\* A pod-level runAsUser below a container's: the UID is the container's + 1,
\* the GID the pod-level value.
C13_Witness ==
    /\ Resolved
    /\ ~MapHas(pod.annotations, proxyUIDAnnotation)
    /\ PodRunAsUser = SomeInt(1000)
    /\ ContainerRunAsUsers = <<MaxInt64 - 1>>
    /\ req.proxyUID = MaxInt64
    /\ req.proxyGID = SomeInt(1000)

\* C14 as stated: with no proxyUID annotation, the runAsUser written to the
\* sidecar differs from the pod-level runAsUser and from the runAsUser of
\* every container of the pod.
C14_UniqueUID ==
    pc = "inject" /\ ~handler.partialInjection /\ ~MapHas(pod.annotations, proxyUIDAnnotation) =>
        LET sidecar == sic.containers[FindSidecar(sic.containers)]
            written == sidecar.securityContext.runAsUser.v
        IN  /\ sidecar.securityContext.runAsUser.set
            /\ PodRunAsUser.set => written # PodRunAsUser.v
            /\ \A i \in DOMAIN ContainerRunAsUsers : written # ContainerRunAsUsers[i]

\* C15 as stated: a request with an empty or unreadable body is answered
\* with 400 and one with another Content-Type than application/json with
\* 415; inject is not called, no admission review is written, and none of
\* the successful, skipped and failed counters is changed.
C15_Malformed ==
    /\ pc = "done" /\ request.body \in {"nil", "unreadable", "empty"} => response.status = StatusBadRequest
    /\ pc = "done" /\ request.body \in {"undecodable", "review"} /\ request.contentType # "application/json"
           => response.status = StatusUnsupportedMediaType
    /\ response.status \in {StatusBadRequest, StatusUnsupportedMediaType} =>
           /\ handler = NoLocals /\ ~response.set
           /\ ~response.review
           /\ counters.successful = 0 /\ counters.skipped = 0 /\ counters.failed = 0

\* C16: when inject cannot decode the pod, or injectPod fails, the response
\* is not allowed, carries the error as its message and no patch, the failed
\* counter goes up by one and the successful and skipped counters stay.
C16_InjectErrors ==
    [][/\ pc' # pc
       /\ \/ pc = "start" /\ request.object # "pod"
          \/ pc = "params" /\ handler.read = ParameterReads /\ req.template = BrokenTemplate
       => /\ pc' = "error"
          /\ response'.set /\ ~response'.allowed /\ ~response'.patch /\ response'.message # ""
          /\ counters'.failed = counters.failed + 1
          /\ counters'.successful = counters.successful
          /\ counters'.skipped = counters.skipped
          /\ patch' = <<>>]_vars

\* The template did not render: the request failed in injectPod.
C16_Witness ==
    /\ pc = "error"
    /\ response.message = "render"
    /\ ~response.allowed
    /\ counters.failed = 1 /\ counters.successful = 0 /\ counters.skipped = 0

\* The segments of a path /inject/s1/s2/...: what stands between the
\* slashes after /inject, one slash at the end of the path not counted.
PathSegments(path) ==
    LET whole == IF path[Len(path)] = "/" THEN SubSeq(path, 1, Len(path) - 1) ELSE path
        slashes == {i \in DOMAIN whole : whole[i] = "/"}
        starts == SetToSeq(slashes \ {1})
        ordered == SortSeq(starts, <)
    IN  [n \in DOMAIN ordered |->
            LET next == IF n = Len(ordered) THEN Len(whole) + 1 ELSE ordered[n + 1]
            IN  SubSeq(whole, ordered[n] + 1, next - 1)]

\* The name a key of the path stands for.
EnvName(k) ==
    CASE k = <<"cluster">> -> <<"ISTIO_META_CLUSTER_ID">>
      [] k = <<"net">> -> <<"ISTIO_META_NETWORK">>
      [] OTHER -> [i \in DOMAIN k |-> IF k[i] = "foo" THEN "FOO" ELSE k[i]]

\* The map of the pairs: the value of the last pair of each name.
EnvsOfPairs(segs, pairs) ==
    LET names == {EnvName(segs[2 * i - 1]) : i \in pairs}
    IN  [name \in names |->
            LET last == Max({i \in pairs : EnvName(segs[2 * i - 1]) = name}) IN segs[2 * last]]

\* C17 as stated: one entry for every complete pair of the path, under
\* ISTIO_META_CLUSTER_ID for cluster, ISTIO_META_NETWORK for net and the key
\* in upper case for any other key; a last key without a value is dropped;
\* a later pair of the same name overrides; /inject and /inject/ give the
\* empty map.
C17_AsStated ==
    pc = "parsed" =>
        LET segs == PathSegments(request.path)
        IN  req.proxyEnvs = MakeMap(EnvsOfPairs(segs, 1..(Len(segs) \div 2)))

\* C17: as stated, but a pair whose key is empty gives no entry.
C17_InjectEnvs ==
    pc = "parsed" =>
        LET segs == PathSegments(request.path)
        IN  req.proxyEnvs = MakeMap(EnvsOfPairs(segs, {i \in 1..(Len(segs) \div 2) : segs[2 * i - 1] # <<>>}))

\* /inject/foo/cluster/FOO/net: the second pair overrides the first.
C17_Witness ==
    /\ pc = "parsed"
    /\ request.path = <<"/", "inject", "/", "foo", "/", "cluster", "/", "FOO", "/", "net">>
    /\ req.proxyEnvs = MakeMap(OneEntry(<<"FOO">>, <<"net">>))

HealthCheckOn == run.healthCheckInterval # 0 /\ run.healthCheckFile # ""

\* C18: once stop is closed Run returns in the end, with a tick pending or
\* not; every tick it receives makes it write the file, ok is what a write
\* that succeeds leaves in it, a write that fails leaves Run in its loop;
\* with a zero interval or an empty file name it never writes.
C18_Run ==
    /\ run.stop ~> run.pc = "returned"
    /\ [][run.tick /\ ~run'.tick => run.pc = "select" /\ run'.pc = "write"]_vars
    /\ [][run.pc = "write" /\ run'.pc # "write" =>
             /\ run'.pc = "select"
             /\ run'.lastWrite = "ok" => run'.content = "ok"]_vars
    /\ [](~HealthCheckOn => run.content = "" /\ run.lastWrite = "none" /\ run.pc # "write" /\ ~run.tick)

\* Run has returned with a tick pending, after a write that succeeded and
\* one that failed.
C18_Witness ==
    /\ run.pc = "returned"
    /\ run.stop /\ run.tick
    /\ run.writes >= 1
    /\ run.lastWrite = "failed"

\* C19 as stated: once the Stop that ended a Start has returned, the
\* handler given to that Start is not invoked, neither with a resource
\* event nor with FullSyncEvent.
C19_StopStopsEvents == \A call \in dynamic.calls : ~call.stopped

\* The two ways C19 fails: FullSyncEvent sent after Stop has returned, and a
\* resource's event that handleEvent had taken before Stop closed the channel.
C19_FullSyncAfterStop == \A call \in dynamic.calls : call.event = "FullSync" => ~call.stopped
C19_ResourceAfterStop == \A call \in dynamic.calls : call.event = "Resource" => ~call.stopped

\* The pod's merge-metrics annotation decides when it parses as a boolean,
\* else the mesh setting when there is one, else merging is on.
MergeEnabled ==
    LET a == pod.annotations
        v == MapGet(a, PrometheusMergeMetricsKey)
        yes == {<<"1">>, <<"t">>, <<"T">>, <<"TRUE">>, <<"true">>, <<"True">>}
        no == {<<"0">>, <<"f">>, <<"F">>, <<"FALSE">>, <<"false">>, <<"False">>}
    IN  IF MapHas(a, PrometheusMergeMetricsKey) /\ v \in yes THEN TRUE
        ELSE IF MapHas(a, PrometheusMergeMetricsKey) /\ v \in no THEN FALSE
        ELSE req.meshConfig.enablePrometheusMerge \in {"unset", "true"}

\* The containers of a rendered spec that carry the env var of the pod's
\* scrape annotations.
WithScrapeEnv(s) ==
    {i \in DOMAIN s.containers :
        \E e \in DOMAIN s.containers[i].env : s.containers[i].env[e].name = "ISTIO_PROMETHEUS_ANNOTATIONS"}

ScrapeKeys == {PrometheusScrapeKey, PrometheusPathKey, PrometheusPortKey}

\* C20: createPatch with merging enabled sets prometheus.io/port, path and
\* scrape of the annotations to set to the mesh status port,
\* "/stats/prometheus" and "true", with or without the sidecar in the
\* rendered spec, and leaves the other annotations to set as they were; it
\* appends the env var of the pod's scrape annotations to the sidecar, as
\* the last of its env, exactly when there is a sidecar and one of the pod's
\* three scrape annotations is not empty.  With merging disabled the
\* annotations to set are unchanged and no container gets the env var.
C20_PrometheusMerge ==
    [][pc = "start" /\ pc' = "createPatch" =>
         LET i == FindSidecar(sic.containers)
             some == \E k \in ScrapeKeys : MapGet(pod.annotations, k) # <<>>
         IN  IF MergeEnabled
             THEN /\ MapGet(annotations', PrometheusPortKey) = Itoa(req.meshConfig.statusPort)
                  /\ MapGet(annotations', PrometheusPathKey) = <<"/stats/prometheus">>
                  /\ MapGet(annotations', PrometheusScrapeKey) = <<"true">>
                  /\ MapKeys(annotations') = MapKeys(annotations) \cup ScrapeKeys
                  /\ \A k \in MapKeys(annotations) \ ScrapeKeys :
                        MapGet(annotations', k) = MapGet(annotations, k)
                  /\ WithScrapeEnv(sic') = IF i # 0 /\ some THEN {i} ELSE {}
                  /\ i # 0 /\ some =>
                        sic'.containers[i].env[Len(sic'.containers[i].env)] =
                          EnvVar("ISTIO_PROMETHEUS_ANNOTATIONS",
                                 MarshalScrape(MapGet(pod.annotations, PrometheusScrapeKey),
                                               MapGet(pod.annotations, PrometheusPathKey),
                                               MapGet(pod.annotations, PrometheusPortKey)))
             ELSE /\ annotations' = annotations
                  /\ WithScrapeEnv(sic') = {}]_vars

\* The pod's annotation turns merging on against the mesh setting, the
\* rendered spec has no sidecar, and createPatch has put the status port in
\* place of the port that was to be set.
C20_Witness ==
    /\ pc = "createPatch"
    /\ applied = 0
    /\ MapGet(pod.annotations, PrometheusMergeMetricsKey) = <<"true">>
    /\ MapGet(pod.annotations, PrometheusScrapeKey) = <<"true">>
    /\ req.meshConfig.enablePrometheusMerge = "false"
    /\ FindSidecar(sic.containers) = 0
    /\ MapGet(annotations, PrometheusPortKey) = Itoa(DefaultStatusPort)
    /\ WithScrapeEnv(sic) = {}

\* The informers whose Run has not returned, and those of them whose
\* channel is still open.
RunningInformers == {g \in DOMAIN dynamic.goroutines : dynamic.goroutines[g].informer = "running"}
OpenInformers == {g \in RunningInformers : dynamic.goroutines[g].stopCh \notin dynamic.closed}

\* What Start and Stop guard: the stop channel, the handler, the informer
\* and the goroutines started.
Lifecycle == <<dynamic.stopCh, dynamic.handler, dynamic.informer, dynamic.goroutines, dynamic.closed>>

\* The step of caller c from the lock taken to the deferred Unlock.
Body(c, op) ==
    /\ dynamic.callers[c].pc = "locked"
    /\ dynamic.callers[c].op = op
    /\ dynamic'.callers[c].pc = "unlock"

\* The rest of the lifecycle: a Start on a running source fails with
\* "already synchronizing", a Start with a nil handler fails, and both leave
\* channel, handler, informer and goroutines as they were; a Stop on a
\* source that is not running changes nothing; no channel is closed twice;
\* a Start with a handler on a source that is not running succeeds, after a
\* Stop as well, with a new open channel and its two goroutines.
StartStopGuards ==
    /\ [](dynamic.closes = Cardinality(dynamic.closed))
    /\ [][\A c \in Callers :
            /\ Body(c, "Start") /\ dynamic.stopCh # 0 =>
                  dynamic'.callers[c].result = "already synchronizing" /\ Lifecycle' = Lifecycle
            /\ Body(c, "StartNil") =>
                  dynamic'.callers[c].result # "nil" /\ Lifecycle' = Lifecycle
            /\ Body(c, "Stop") /\ dynamic.stopCh = 0 => Lifecycle' = Lifecycle
            /\ Body(c, "Stop") /\ dynamic.stopCh # 0 =>
                  /\ dynamic.stopCh \notin dynamic.closed
                  /\ dynamic'.closed = dynamic.closed \cup {dynamic.stopCh}
                  /\ dynamic'.stopCh = 0
            /\ Body(c, "Start") /\ dynamic.stopCh = 0 =>
                  /\ dynamic'.callers[c].result = "nil"
                  /\ dynamic'.stopCh \notin dynamic'.closed \cup {0, dynamic.stopCh}
                  /\ Len(dynamic'.goroutines) = Len(dynamic.goroutines) + 1]_vars

\* C21 as stated: at most one informer is running at a time, and Start and
\* Stop guard the lifecycle as above, under every interleaving of the calls.
C21_Lifecycle ==
    /\ [](Cardinality(RunningInformers) <= 1)
    /\ StartStopGuards

\* What holds of the informers: at most one of them runs on a channel that
\* is not closed.
C21_OneOpenInformer ==
    /\ [](Cardinality(OpenInformers) <= 1)
    /\ StartStopGuards

====
